---- MODULE Spec2Model ----
(***************************************************************************)
(* Model of the BASIC interpreter (src/src/main.rs) and of the code        *)
(* generator (src/src/compiler.rs).                                        *)
(*                                                                         *)
(* f64 values are modelled as exact rationals n/d (d > 0, lowest terms).   *)
(* The programs and inputs enumerated below keep every value a small       *)
(* rational, where f64 arithmetic and comparison agree with the exact      *)
(* ones.  The interpreter produces neither NaN nor an infinity on any      *)
(* modelled input; the compiled program can, and there they are n/0.       *)
(* Line indices are 0-based as in the source: line i of a program is       *)
(* program[i + 1].                                                         *)
(***************************************************************************)
EXTENDS Integers, Sequences, FiniteSets, TLC

VARIABLES
    program,       \* Interpreter.program: the sequence of statements (Line.number is the index)
    variables,     \* Interpreter.variables: HashMap<String, f64>
    loops,         \* Interpreter.loops: Vec<ForLoop>
    loop_stack,    \* Interpreter.loop_stack: Vec<usize>
    current_line,  \* Interpreter.current_line
    running,       \* Interpreter.running
    output,        \* what the interpreter has written to stdout
    result,        \* what execute_program has returned: "none", "Ok" or an Err record
    for_vals,      \* the (start, end, step) numbers each active For computed when it ran
    last,          \* the statement execution the driver performed last
    steps,         \* number of driver iterations performed
    stdin,         \* the lines of standard input the interpreter has consumed
    exe,           \* the run of code.exe, built by rustc from the text compile_program emits
    source,        \* the text handed to tokenize
    tokens,        \* the tokens tokenize has returned, handed to Parser::new
    parsed         \* what parse_program has returned

vars == <<program, variables, loops, loop_stack, current_line, running,
          output, result, for_vals, last, steps, stdin, exe, source, tokens, parsed>>

-----------------------------------------------------------------------------
(* Bounds *)

MaxVal == 2        \* loop bounds and steps of the FOR family range over -MaxVal..MaxVal
MaxLines == 3      \* longest program enumerated over the statement alphabet
MaxSteps == 14     \* driver iterations explored per run
MaxExeSteps == 60  \* lines of the compiled program explored per run
MaxText == 3       \* characters of the texts enumerated in full

-----------------------------------------------------------------------------
(* f64 as exact rationals *)

AbsInt(i) == IF i < 0 THEN -i ELSE i

RECURSIVE GCD(_, _)
GCD(a, b) == IF b = 0 THEN a ELSE GCD(b, a % b)

Rat(n, d) ==
    LET g == GCD(AbsInt(n), AbsInt(d))
        sg == IF d < 0 THEN -1 ELSE 1
    IN  [n |-> (sg * n) \div g, d |-> (sg * d) \div g]

Zero == Rat(0, 1)
One == Rat(1, 1)

RatAdd(a, b) == Rat(a.n * b.d + b.n * a.d, a.d * b.d)
RatSub(a, b) == Rat(a.n * b.d - b.n * a.d, a.d * b.d)
RatMul(a, b) == Rat(a.n * b.n, a.d * b.d)
RatDiv(a, b) == Rat(a.n * b.d, a.d * b.n)
RatLt(a, b) == a.n * b.d < b.n * a.d
RatLe(a, b) == a.n * b.d <= b.n * a.d
RatAbs(a) == Rat(AbsInt(a.n), a.d)
RatFloor(a) == Rat(a.n \div a.d, 1)

\* f64::powf for an integral exponent; other exponents are outside the model
RECURSIVE RatPowNat(_, _)
RatPowNat(a, k) == IF k = 0 THEN One ELSE RatMul(a, RatPowNat(a, k - 1))

RatPowf(a, b) ==
    CASE b.d = 1 /\ b.n >= 0 -> RatPowNat(a, b.n)
      [] b.d = 1 /\ b.n < 0 /\ a.n # 0 -> RatDiv(One, RatPowNat(a, -b.n))

\* f64::sqrt where the root is rational; other arguments are outside the model
RatSqrt(a) == CHOOSE q \in {Rat(i, j) : i \in 0..a.n, j \in 1..a.d} : RatMul(q, q) = a

-----------------------------------------------------------------------------
(* Expression, Statement, Value *)

ENumber(k) == [kind |-> "Number", n |-> Rat(k, 1)]
EDecimal(n, d) == [kind |-> "Number", n |-> Rat(n, d)]
EString(s) == [kind |-> "String", s |-> s]
EVariable(name) == [kind |-> "Variable", name |-> name]
EBinary(l, op, r) == [kind |-> "Binary", left |-> l, operator |-> op, right |-> r]
EFunctionCall(name, args) == [kind |-> "FunctionCall", name |-> name, arguments |-> args]

ForLoop(v, a, b, s) == [variable |-> v, start |-> a, end |-> b, step |-> s]

SLet(v, e) == [kind |-> "Let", variable |-> v, expression |-> e]
SPrint(es, semi) == [kind |-> "Print", expressions |-> es, semicolon |-> semi]
SIf(c, t) == [kind |-> "If", condition |-> c, then_branch |-> t, has_else |-> FALSE]
SIfElse(c, t, e) ==
    [kind |-> "If", condition |-> c, then_branch |-> t, has_else |-> TRUE, else_branch |-> e]
SInput(v) == [kind |-> "Input", variable |-> v]
SFor(v, a, b, s) == [kind |-> "For", loop_data |-> ForLoop(v, a, b, s)]
SNext(v) == [kind |-> "Next", variable |-> v]
SEnd == [kind |-> "End"]
SRem(s) == [kind |-> "Rem", text |-> s]

VNumber(q) == [tag |-> "Number", n |-> q]
VString(s) == [tag |-> "String", s |-> s]

Ok(v) == [ok |-> TRUE, v |-> v]
Err(m) == [ok |-> FALSE, msg |-> m]

\* SIN, COS, TAN and RND return values that are not small rationals: no modelled
\* program calls them
BuiltinFunctions == {"ABS", "SQR", "SIN", "COS", "TAN", "RND", "INT"}

ComparisonOps == {"LessThan", "GreaterThan", "Equals", "LessOrEqual", "GreaterOrEqual", "NotEqual"}

-----------------------------------------------------------------------------
(* Interpreter::evaluate_expression *)

\* variant: true is -1, as in other BASIC dialects
BoolNumber_MinusOne(b) == VNumber(IF b THEN Rat(-1, 1) ELSE Zero)

BoolNumber(b) == VNumber(IF b THEN One ELSE Zero)

\* variant: no test of the divisor (a zero divisor gives a value)
DivideNumbers_Unchecked(l, r) == Ok(VNumber(IF r = Zero THEN Zero ELSE RatDiv(l, r)))

DivideNumbers(l, r) ==
    IF r = Zero THEN Err("Division by zero") ELSE Ok(VNumber(RatDiv(l, r)))

BinaryOp(left_val, operator, right_val) ==
    IF left_val.tag = "Number" /\ right_val.tag = "Number"
    THEN LET l == left_val.n
             r == right_val.n
         IN CASE operator = "Plus" -> Ok(VNumber(RatAdd(l, r)))
              [] operator = "Minus" -> Ok(VNumber(RatSub(l, r)))
              [] operator = "Multiply" -> Ok(VNumber(RatMul(l, r)))
              [] operator = "Divide" -> DivideNumbers(l, r)
              [] operator = "Power" -> Ok(VNumber(RatPowf(l, r)))
              [] operator = "LessThan" -> Ok(BoolNumber(RatLt(l, r)))
              [] operator = "GreaterThan" -> Ok(BoolNumber(RatLt(r, l)))
              [] operator = "Equals" -> Ok(BoolNumber(l = r))
              [] operator = "LessOrEqual" -> Ok(BoolNumber(RatLe(l, r)))
              [] operator = "GreaterOrEqual" -> Ok(BoolNumber(RatLe(r, l)))
              [] operator = "NotEqual" -> Ok(BoolNumber(l # r))
              [] OTHER -> Err("Invalid operation or type mismatch")
    ELSE Err("Invalid operation or type mismatch")

RECURSIVE evaluate_expression(_, _)
evaluate_expression(expr, vs) ==
    CASE expr.kind = "Number" -> Ok(VNumber(expr.n))
      [] expr.kind = "String" -> Ok(VString(expr.s))
      [] expr.kind = "Variable" ->
            IF expr.name \in DOMAIN vs
            THEN Ok(VNumber(vs[expr.name]))
            ELSE Err("Undefined variable")
      [] expr.kind = "Binary" ->
            LET left_val == evaluate_expression(expr.left, vs)
            IN  IF ~left_val.ok THEN left_val
                ELSE LET right_val == evaluate_expression(expr.right, vs)
                     IN  IF ~right_val.ok THEN right_val
                         ELSE BinaryOp(left_val.v, expr.operator, right_val.v)
      [] expr.kind = "FunctionCall" ->
            CASE expr.name \in {"ABS", "INT", "SQR"} ->
                    LET arg == evaluate_expression(expr.arguments[1], vs)
                    IN  IF ~arg.ok THEN arg
                        ELSE IF arg.v.tag # "Number" THEN Err("requires a number argument")
                        ELSE CASE expr.name = "ABS" -> Ok(VNumber(RatAbs(arg.v.n)))
                               [] expr.name = "INT" -> Ok(VNumber(RatFloor(arg.v.n)))
                               [] expr.name = "SQR" ->
                                    IF RatLt(arg.v.n, Zero)
                                    THEN Err("Cannot take square root of negative number")
                                    ELSE Ok(VNumber(RatSqrt(arg.v.n)))
              [] expr.name \notin BuiltinFunctions -> Err("Unknown function")

-----------------------------------------------------------------------------
(* Interpreter state as one record, so that execute_statement is a function *)

State ==
    [variables |-> variables, loops |-> loops, loop_stack |-> loop_stack,
     current_line |-> current_line, running |-> running, output |-> output,
     for_vals |-> for_vals]

\* HashMap::insert
Insert(m, k, v) == [x \in (DOMAIN m) \cup {k} |-> IF x = k THEN v ELSE m[x]]

\* Vec::pop: no effect on an empty vector
Pop(v) == IF v = <<>> THEN v ELSE SubSeq(v, 1, Len(v) - 1)

Top(v) == v[Len(v)]

\* results of execute_statement: the state it leaves, the statement that was
\* finally executed (the taken branch of an If), whether a Next continued
StmtOk(s, leaf, cont) == [ok |-> TRUE, panic |-> FALSE, s |-> s, leaf |-> leaf, cont |-> cont]
StmtErr(s, leaf, m) ==
    [ok |-> FALSE, panic |-> FALSE, s |-> s, leaf |-> leaf, cont |-> FALSE, msg |-> m]
StmtPanic(s, leaf) ==
    [ok |-> FALSE, panic |-> TRUE, s |-> s, leaf |-> leaf, cont |-> FALSE, msg |-> "panic"]

Space == VString(" ")
Newline == VString("\n")
Prompt(v) == VString("Enter " \o v \o ": ")

\* one line of standard input: a number text, another text, or a read failure
NumberLine(k) == [read |-> TRUE, numeric |-> TRUE, n |-> Rat(k, 1)]
TextLine == [read |-> TRUE, numeric |-> FALSE]
ReadFailure == [read |-> FALSE, numeric |-> FALSE]

-----------------------------------------------------------------------------
(* tokenize.  A text is a sequence of characters, each a string of length 1. *)

Tok(t) == [t |-> t]
TNumber(q) == [t |-> "Number", n |-> q]
TIdentifier(name) == [t |-> "Identifier", name |-> name]
TString(text) == [t |-> "String", s |-> text]
EOL == Tok("EOL")
EOF == Tok("EOF")

Digits == <<"0", "1", "2", "3", "4", "5", "6", "7", "8", "9">>
LowerCase == <<"a", "b", "c", "d", "e", "f", "g", "h", "i", "j", "k", "l", "m",
               "n", "o", "p", "q", "r", "s", "t", "u", "v", "w", "x", "y", "z">>
UpperCase == <<"A", "B", "C", "D", "E", "F", "G", "H", "I", "J", "K", "L", "M",
               "N", "O", "P", "Q", "R", "S", "T", "U", "V", "W", "X", "Y", "Z">>

Range(f) == {f[i] : i \in DOMAIN f}
IsDigit(c) == c \in Range(Digits)
IsLetter(c) == c \in Range(LowerCase) \cup Range(UpperCase)
DigitValue(c) == (CHOOSE i \in DOMAIN Digits : Digits[i] = c) - 1

\* char::to_ascii_uppercase
ToAsciiUppercase(c) ==
    IF c \in Range(LowerCase) THEN UpperCase[CHOOSE i \in DOMAIN LowerCase : LowerCase[i] = c]
    ELSE c

\* the identifiers that are keywords, and their tokens
Keywords ==
    [w \in {"LET", "PRINT", "IF", "THEN", "ELSE", "FOR", "TO", "STEP", "NEXT", "END", "INPUT"} |->
        CASE w = "LET" -> "Let" [] w = "PRINT" -> "Print" [] w = "IF" -> "If"
          [] w = "THEN" -> "Then" [] w = "ELSE" -> "Else" [] w = "FOR" -> "For"
          [] w = "TO" -> "To" [] w = "STEP" -> "Step" [] w = "NEXT" -> "Next"
          [] w = "END" -> "End" [] w = "INPUT" -> "Input"]

\* the characters that are tokens by themselves
SingleCharTokens ==
    [c \in {"+", "-", "*", "/", "^", "=", "(", ")", ",", ";", ":"} |->
        CASE c = "+" -> "Plus" [] c = "-" -> "Minus" [] c = "*" -> "Multiply"
          [] c = "/" -> "Divide" [] c = "^" -> "Power" [] c = "=" -> "Equals"
          [] c = "(" -> "LParen" [] c = ")" -> "RParen" [] c = "," -> "Comma"
          [] c = ";" -> "Semicolon" [] c = ":" -> "Colon"]

\* the end of the run of digits and points that starts at i (the first index after it)
RECURSIVE NumberEnd(_, _)
NumberEnd(chars, i) ==
    IF i <= Len(chars) /\ (IsDigit(chars[i]) \/ chars[i] = ".") THEN NumberEnd(chars, i + 1)
    ELSE i

\* the end of the run of letters, digits and underscores that starts at i
RECURSIVE IdentEnd(_, _)
IdentEnd(chars, i) ==
    IF i <= Len(chars) /\ (IsLetter(chars[i]) \/ IsDigit(chars[i]) \/ chars[i] = "_")
    THEN IdentEnd(chars, i + 1)
    ELSE i

\* the index of the quote that closes the string whose text starts at i, or
\* Len(chars) + 1 when the text ends first
RECURSIVE StringEnd(_, _)
StringEnd(chars, i) ==
    IF i <= Len(chars) /\ chars[i] # "\"" THEN StringEnd(chars, i + 1) ELSE i

\* the characters i .. j - 1 as one string, in upper case for an identifier
RECURSIVE Collect(_, _, _, _)
Collect(chars, i, j, upper) ==
    IF i >= j THEN ""
    ELSE (IF upper THEN ToAsciiUppercase(chars[i]) ELSE chars[i]) \o Collect(chars, i + 1, j, upper)

\* str::parse::<f64> on a run of digits and points that starts with a digit:
\* a decimal with at most one point; anything else is an Err
RECURSIVE Decimal(_, _, _, _, _)
Decimal(chars, i, j, n, d) ==
    IF i >= j THEN Ok(Rat(n, IF d = 0 THEN 1 ELSE d))
    ELSE IF chars[i] = "." THEN (IF d = 0 THEN Decimal(chars, i + 1, j, n, 1) ELSE Err("invalid float literal"))
    ELSE Decimal(chars, i + 1, j, n * 10 + DigitValue(chars[i]), d * 10)

ParseF64(chars, i, j) == Decimal(chars, i, j, 0, 0)

\* the number rule: the token is pushed only if the run parses
NumberToken(toks, number) ==
    IF number.ok THEN Append(toks, TNumber(number.v)) ELSE toks

IdentToken(ident) ==
    IF ident \in DOMAIN Keywords THEN Tok(Keywords[ident]) ELSE TIdentifier(ident)

\* variant: the end-of-line token is added also to an empty token list
Finish_AlwaysEOL(toks) ==
    Append(IF toks = << >> \/ Top(toks) # EOL THEN Append(toks, EOL) ELSE toks, EOF)

\* after the loop: an EOL if there are tokens and the last is not one, then EOF
Finish(toks) ==
    Append(IF toks # << >> /\ Top(toks) # EOL THEN Append(toks, EOL) ELSE toks, EOF)

\* the loop of tokenize from character i on
RECURSIVE Scan(_, _, _)
ScanLess(chars, i, toks) ==
    IF i + 1 <= Len(chars) /\ chars[i + 1] = "="
    THEN Scan(chars, i + 2, Append(toks, Tok("LessOrEqual")))
    ELSE IF i + 1 <= Len(chars) /\ chars[i + 1] = ">"
    THEN Scan(chars, i + 2, Append(toks, Tok("NotEqual")))
    ELSE Scan(chars, i + 1, Append(toks, Tok("LessThan")))

ScanGreater(chars, i, toks) ==
    IF i + 1 <= Len(chars) /\ chars[i + 1] = "="
    THEN Scan(chars, i + 2, Append(toks, Tok("GreaterOrEqual")))
    ELSE Scan(chars, i + 1, Append(toks, Tok("GreaterThan")))

ScanNumber(chars, i, j, toks) == Scan(chars, j, NumberToken(toks, ParseF64(chars, i, j)))

ScanIdent(chars, i, j, toks) ==
    Scan(chars, j, Append(toks, IdentToken(Collect(chars, i, j, TRUE))))

\* i is the index of the opening quote, j of the closing one (or past the end)
ScanString(chars, i, j, toks) ==
    Scan(chars, IF j <= Len(chars) THEN j + 1 ELSE j,
         Append(toks, TString(Collect(chars, i + 1, j, FALSE))))

Scan(chars, i, toks) ==
    IF i > Len(chars) THEN Finish(toks)
    ELSE CASE chars[i] \in {" ", "\t", "\r"} -> Scan(chars, i + 1, toks)
           [] chars[i] = "\n" -> Scan(chars, i + 1, Append(toks, EOL))
           [] IsDigit(chars[i]) -> ScanNumber(chars, i, NumberEnd(chars, i), toks)
           [] IsLetter(chars[i]) \/ chars[i] = "_" ->
                ScanIdent(chars, i, IdentEnd(chars, i), toks)
           [] chars[i] = "\"" -> ScanString(chars, i, StringEnd(chars, i + 1), toks)
           [] chars[i] \in DOMAIN SingleCharTokens ->
                Scan(chars, i + 1, Append(toks, Tok(SingleCharTokens[chars[i]])))
           [] chars[i] = "<" -> ScanLess(chars, i, toks)
           [] chars[i] = ">" -> ScanGreater(chars, i, toks)
           [] OTHER -> Scan(chars, i + 1, toks)

tokenize(input) == Scan(input, 1, << >>)

-----------------------------------------------------------------------------
(* Parser.  ts is Parser.tokens and cur is Parser.current, counted from 0:   *)
(* the token at cur is ts[cur + 1].  A parse function returns the position   *)
(* it leaves with what it has built, or the panic that ends the run.         *)

NoToken == Tok("None")
ParsePanic(m) == [ok |-> FALSE, msg |-> m]
ParsedExpr(cur, e) == [ok |-> TRUE, cur |-> cur, e |-> e]
ParsedStmt(cur, st) == [ok |-> TRUE, cur |-> cur, st |-> st]

\* Parser::peek
Peek(ts, cur) == IF cur < Len(ts) THEN ts[cur + 1] ELSE NoToken

\* Parser::advance: the position it leaves, and the token it returns (at the
\* end of the tokens the last one again)
AdvancePos(ts, cur) == IF cur < Len(ts) THEN cur + 1 ELSE cur
Advanced(ts, cur) == IF AdvancePos(ts, cur) >= 1 THEN ts[AdvancePos(ts, cur)] ELSE NoToken

\* variant: * and / bind more loosely than + and -
LevelOperators_AdditiveAboveMultiplicative(level) ==
    CASE level = 1 -> ComparisonOps
      [] level = 2 -> {"Multiply", "Divide"}
      [] level = 3 -> {"Plus", "Minus"}
      [] level = 4 -> {"Power"}

\* the operator tokens matched by parse_comparison (1), parse_additive (2),
\* parse_multiplicative (3) and parse_power (4)
LevelOperators(level) ==
    CASE level = 1 -> ComparisonOps
      [] level = 2 -> {"Plus", "Minus"}
      [] level = 3 -> {"Multiply", "Divide"}
      [] level = 4 -> {"Power"}

RECURSIVE ParseLevel(_, _, _), BinaryLoop(_, _, _), ParseArguments(_, _, _)

\* the body of the while loop of a level: the right operand is parsed one level up
BinaryRight(level, ts, left, operator, right) ==
    IF ~right.ok THEN right
    ELSE BinaryLoop(level, ts, ParsedExpr(right.cur, EBinary(left.e, operator, right.e)))

\* the while loop of a level, with the expression built so far
BinaryLoop(level, ts, left) ==
    IF ~left.ok THEN left
    ELSE IF Peek(ts, left.cur).t \in LevelOperators(level)
    THEN BinaryRight(level, ts, left, Peek(ts, left.cur).t, ParseLevel(level + 1, ts, left.cur + 1))
    ELSE left

\* the argument list after the opening parenthesis
ArgumentParsed(ts, args, e) ==
    IF ~e.ok THEN e
    ELSE IF Peek(ts, e.cur).t = "Comma" THEN ParseArguments(ts, e.cur + 1, Append(args, e.e))
    ELSE IF Peek(ts, e.cur).t = "RParen"
    THEN [ok |-> TRUE, cur |-> e.cur + 1, args |-> Append(args, e.e)]
    ELSE ParsePanic("Expected ',' or ')' in function call")

ParseArguments(ts, cur, args) ==
    IF Peek(ts, cur).t = "RParen" THEN [ok |-> TRUE, cur |-> cur + 1, args |-> args]
    ELSE ArgumentParsed(ts, args, ParseLevel(1, ts, cur))

CallParsed(name, arguments) ==
    IF ~arguments.ok THEN arguments
    ELSE ParsedExpr(arguments.cur, EFunctionCall(name, arguments.args))

\* the closing parenthesis after a parenthesized expression
CloseParen(ts, e) ==
    IF ~e.ok THEN e
    ELSE IF Peek(ts, e.cur).t = "RParen" THEN ParsedExpr(e.cur + 1, e.e)
    ELSE ParsePanic("Expected closing parenthesis")

\* parse_primary on the token advance has returned; cur is the position after it
PrimaryOf(ts, cur, token) ==
    CASE token.t = "Number" -> ParsedExpr(cur, [kind |-> "Number", n |-> token.n])
      [] token.t = "String" -> ParsedExpr(cur, EString(token.s))
      [] token.t = "Identifier" ->
            IF Peek(ts, cur).t = "LParen"
            THEN CallParsed(token.name, ParseArguments(ts, cur + 1, << >>))
            ELSE ParsedExpr(cur, EVariable(token.name))
      [] token.t = "LParen" -> CloseParen(ts, ParseLevel(1, ts, cur))
      [] token.t = "None" -> ParsePanic("Unexpected end of input")
      [] OTHER -> ParsePanic("Unexpected token in expression")

parse_primary(ts, cur) == PrimaryOf(ts, AdvancePos(ts, cur), Advanced(ts, cur))

ParseLevel(level, ts, cur) ==
    IF level > 4 THEN parse_primary(ts, cur)
    ELSE BinaryLoop(level, ts, ParseLevel(level + 1, ts, cur))

parse_power(ts, cur) == ParseLevel(4, ts, cur)
parse_multiplicative(ts, cur) == ParseLevel(3, ts, cur)
parse_additive(ts, cur) == ParseLevel(2, ts, cur)
parse_comparison(ts, cur) == ParseLevel(1, ts, cur)
parse_expression(ts, cur) == parse_comparison(ts, cur)

\* parse_print: the loop over the tokens after PRINT
RECURSIVE PrintLoop(_, _, _)
PrintParsed(ts, expressions, e) ==
    IF ~e.ok THEN e
    ELSE PrintLoop(ts, IF Peek(ts, e.cur).t = "Comma" THEN e.cur + 1 ELSE e.cur,
                   Append(expressions, e.e))

PrintLoop(ts, cur, expressions) ==
    CASE Peek(ts, cur).t = "None" -> ParsedStmt(cur, SPrint(expressions, FALSE))
      [] Peek(ts, cur).t = "Semicolon" -> ParsedStmt(cur + 1, SPrint(expressions, TRUE))
      [] Peek(ts, cur).t = "EOL" -> ParsedStmt(cur, SPrint(expressions, FALSE))
      [] OTHER -> PrintParsed(ts, expressions, parse_expression(ts, cur))

parse_print(ts, cur) == PrintLoop(ts, cur, << >>)

\* the expression of a Let, after the = sign
LetParsed(variable, e) ==
    IF ~e.ok THEN e ELSE ParsedStmt(e.cur, SLet(variable, e.e))

\* parse_let on the token advance has returned; cur is the position after it
LetOf(ts, cur, token) ==
    IF token.t # "Identifier" THEN ParsePanic("Expected variable name after LET")
    ELSE IF Peek(ts, cur).t # "Equals" THEN ParsePanic("Expected '=' after variable name in LET")
    ELSE LetParsed(token.name, parse_expression(ts, cur + 1))

parse_let(ts, cur) == LetOf(ts, AdvancePos(ts, cur), Advanced(ts, cur))

\* parse_for, from the end expression on
ForStepParsed(variable, start, end, step) ==
    IF ~step.ok THEN step ELSE ParsedStmt(step.cur, SFor(variable, start.e, end.e, step.e))

ForEndParsed(ts, variable, start, end) ==
    IF ~end.ok THEN end
    ELSE IF Peek(ts, end.cur).t = "Step"
    THEN ForStepParsed(variable, start, end, parse_expression(ts, end.cur + 1))
    ELSE ParsedStmt(end.cur, SFor(variable, start.e, end.e, ENumber(1)))

ForStartParsed(ts, variable, start) ==
    IF ~start.ok THEN start
    ELSE IF Peek(ts, start.cur).t # "To" THEN ParsePanic("Expected TO in FOR statement")
    ELSE ForEndParsed(ts, variable, start, parse_expression(ts, start.cur + 1))

ForOf(ts, cur, token) ==
    IF token.t # "Identifier" THEN ParsePanic("Expected variable name after FOR")
    ELSE IF Peek(ts, cur).t # "Equals"
    THEN ParsePanic("Expected '=' after variable name in FOR statement")
    ELSE ForStartParsed(ts, token.name, parse_expression(ts, cur + 1))

parse_for(ts, cur) == ForOf(ts, AdvancePos(ts, cur), Advanced(ts, cur))

\* Input and Next: the statement kind with the identifier advance has returned
NameOf(kind, cur, token) ==
    IF token.t = "Identifier" THEN ParsedStmt(cur, [kind |-> kind, variable |-> token.name])
    ELSE ParsePanic("Expected variable name")

\* an identifier at the start of a statement: a call stored under the
\* function's name, or an assignment
CallStatement(name, arguments) ==
    IF ~arguments.ok THEN arguments
    ELSE ParsedStmt(arguments.cur, SLet(name, EFunctionCall(name, arguments.args)))

IdentifierStatement(ts, cur, name) ==
    IF Peek(ts, cur).t = "LParen" THEN CallStatement(name, ParseArguments(ts, cur + 1, << >>))
    ELSE IF Peek(ts, cur).t = "Equals" THEN LetParsed(name, parse_expression(ts, cur + 1))
    ELSE ParsePanic("Expected = after variable name")

RECURSIVE parse_statement(_, _)

\* parse_if, from the then-branch on
ElseParsed(condition, then_stmt, else_stmt) ==
    IF ~else_stmt.ok THEN else_stmt
    ELSE ParsedStmt(else_stmt.cur, SIfElse(condition.e, then_stmt.st, else_stmt.st))

ThenParsed(ts, condition, then_stmt) ==
    IF ~then_stmt.ok THEN then_stmt
    ELSE IF Peek(ts, then_stmt.cur).t = "Else"
    THEN ElseParsed(condition, then_stmt, parse_statement(ts, then_stmt.cur + 1))
    ELSE ParsedStmt(then_stmt.cur, SIf(condition.e, then_stmt.st))

ConditionParsed(ts, condition) ==
    IF ~condition.ok THEN condition
    ELSE IF Peek(ts, condition.cur).t # "Then" THEN ParsePanic("Expected THEN after IF condition")
    ELSE ThenParsed(ts, condition, parse_statement(ts, condition.cur + 1))

parse_if(ts, cur) == ConditionParsed(ts, parse_expression(ts, cur))

parse_statement(ts, cur) ==
    CASE Peek(ts, cur).t = "Let" -> parse_let(ts, cur + 1)
      [] Peek(ts, cur).t = "Print" -> parse_print(ts, cur + 1)
      [] Peek(ts, cur).t = "If" -> parse_if(ts, cur + 1)
      [] Peek(ts, cur).t = "For" -> parse_for(ts, cur + 1)
      [] Peek(ts, cur).t = "Input" ->
            NameOf("Input", AdvancePos(ts, cur + 1), Advanced(ts, cur + 1))
      [] Peek(ts, cur).t = "Next" ->
            NameOf("Next", AdvancePos(ts, cur + 1), Advanced(ts, cur + 1))
      [] Peek(ts, cur).t = "End" -> ParsedStmt(cur + 1, SEnd)
      [] Peek(ts, cur).t = "Identifier" -> IdentifierStatement(ts, cur + 1, Peek(ts, cur).name)
      [] Peek(ts, cur).t = "None" -> ParsePanic("Unexpected end of input")
      [] OTHER -> ParsePanic("Unexpected token in statement")

\* parse_program: the loop over the lines; a line's number is its index
RECURSIVE ProgramLoop(_, _, _)
LineParsed(ts, lines, statement) ==
    IF ~statement.ok THEN [done |-> TRUE, ok |-> FALSE, msg |-> statement.msg]
    ELSE ProgramLoop(ts, IF Peek(ts, statement.cur).t = "EOL" THEN statement.cur + 1
                         ELSE statement.cur,
                     Append(lines, statement.st))

ProgramLoop(ts, cur, lines) ==
    CASE Peek(ts, cur).t \in {"None", "EOF"} -> [done |-> TRUE, ok |-> TRUE, lines |-> lines]
      [] Peek(ts, cur).t = "EOL" -> ProgramLoop(ts, cur + 1, lines)
      [] OTHER -> LineParsed(ts, lines, parse_statement(ts, cur))

parse_program(ts) == ProgramLoop(ts, 0, << >>)

-----------------------------------------------------------------------------
(* Interpreter::execute_statement, one operator per match arm.  An operator  *)
(* named ...With takes the values its arm has just evaluated.                *)

\* the loop over the expressions of a Print: what has been printed stays
\* printed when a later expression fails
RECURSIVE PrintExpressions(_, _, _, _)
PrintOne(expressions, i, vs, sep, value) ==
    IF ~value.ok THEN [ok |-> FALSE, out |-> sep, msg |-> value.msg]
    ELSE PrintExpressions(expressions, i + 1, vs, Append(sep, value.v))

PrintExpressions(expressions, i, vs, out) ==
    IF i > Len(expressions) THEN [ok |-> TRUE, out |-> out]
    ELSE PrintOne(expressions, i, vs, IF i > 1 THEN Append(out, Space) ELSE out,
                  evaluate_expression(expressions[i], vs))

PrintWith(s, st, p) ==
    IF ~p.ok THEN StmtErr([s EXCEPT !.output = p.out], st, p.msg)
    ELSE StmtOk([s EXCEPT !.output = IF st.semicolon THEN p.out ELSE Append(p.out, Newline)],
                st, FALSE)

execPrint(s, st) ==
    PrintWith(s, st, PrintExpressions(st.expressions, 1, s.variables, s.output))

\* variant: a String is stored as the number 0
LetWith_StringAsZero(s, st, value) ==
    IF ~value.ok THEN StmtErr(s, st, value.msg)
    ELSE StmtOk([s EXCEPT !.variables = Insert(s.variables, st.variable,
                                              IF value.v.tag = "Number" THEN value.v.n ELSE Zero)],
                st, FALSE)

LetWith(s, st, value) ==
    IF ~value.ok THEN StmtErr(s, st, value.msg)
    ELSE IF value.v.tag = "Number"
    THEN StmtOk([s EXCEPT !.variables = Insert(s.variables, st.variable, value.v.n)], st, FALSE)
    ELSE StmtErr(s, st, "Can only store numbers in variables")

execLet(s, st) == LetWith(s, st, evaluate_expression(st.expression, s.variables))

InputWith(s, st, input, prompted) ==
    IF ~input.read THEN StmtErr(prompted, st, "Failed to read input")
    ELSE IF input.numeric
    THEN StmtOk([prompted EXCEPT !.variables = Insert(s.variables, st.variable, input.n)],
                st, FALSE)
    ELSE StmtErr(prompted, st, "Invalid number input")

execInput(s, st, input) ==
    InputWith(s, st, input, [s EXCEPT !.output = Append(s.output, Prompt(st.variable))])

\* variant: a For that tests the bound and steps over the next line when it is violated
ForEnter_BoundChecked(s, loop_data, start, end, step) ==
    IF (RatLt(Zero, step) /\ RatLt(end, start)) \/ (RatLt(step, Zero) /\ RatLt(start, end))
    THEN [s EXCEPT !.variables = Insert(s.variables, loop_data.variable, start),
                   !.current_line = s.current_line + 1]
    ELSE [s EXCEPT !.variables = Insert(s.variables, loop_data.variable, start),
                   !.loops = Append(s.loops, loop_data),
                   !.loop_stack = Append(s.loop_stack, s.current_line),
                   !.for_vals = Append(s.for_vals, [start |-> start, end |-> end, step |-> step])]

\* variant: a For that pushes its loop without storing the start value
ForEnter_NoStore(s, loop_data, start, end, step) ==
    [s EXCEPT !.loops = Append(s.loops, loop_data),
              !.loop_stack = Append(s.loop_stack, s.current_line),
              !.for_vals = Append(s.for_vals, [start |-> start, end |-> end, step |-> step])]

\* the stores and pushes of a For whose three expressions are numbers
ForEnter(s, loop_data, start, end, step) ==
    [s EXCEPT !.variables = Insert(s.variables, loop_data.variable, start),
              !.loops = Append(s.loops, loop_data),
              !.loop_stack = Append(s.loop_stack, s.current_line),
              !.for_vals = Append(s.for_vals, [start |-> start, end |-> end, step |-> step])]

ForWith(s, st, start, end, step) ==
    IF ~start.ok THEN StmtErr(s, st, start.msg)
    ELSE IF ~end.ok THEN StmtErr(s, st, end.msg)
    ELSE IF ~step.ok THEN StmtErr(s, st, step.msg)
    ELSE IF start.v.tag = "Number" /\ end.v.tag = "Number" /\ step.v.tag = "Number"
    THEN StmtOk(ForEnter(s, st.loop_data, start.v.n, end.v.n, step.v.n), st, FALSE)
    ELSE StmtErr(s, st, "Loop bounds must be numbers")

execFor(s, st) ==
    ForWith(s, st,
            evaluate_expression(st.loop_data.start, s.variables),
            evaluate_expression(st.loop_data.end, s.variables),
            evaluate_expression(st.loop_data.step, s.variables))

\* the continuation test of Next
NextContinues(step, next_val, end) ==
    (RatLt(Zero, step) /\ RatLe(next_val, end)) \/ (RatLt(step, Zero) /\ RatLe(end, next_val))

\* variant: a continuing Next that leaves the counter where it is
NextJump_NoJump(s, st, next_val, stored) ==
    IF s.loop_stack # <<>>
    THEN StmtOk(stored, st, TRUE)
    ELSE StmtErr(stored, st, "Loop start not found")

\* variant: a continuing Next after which the For line itself is executed again
NextJump_RerunsFor(s, st, next_val, stored) ==
    IF s.loop_stack # <<>>
    THEN StmtOk([stored EXCEPT !.current_line = Top(s.loop_stack) - 1], st, TRUE)
    ELSE StmtErr(stored, st, "Loop start not found")

\* a continuing Next: store the new value, move the counter to the loop start
NextJump(s, st, next_val, stored) ==
    IF s.loop_stack # <<>>
    THEN StmtOk([stored EXCEPT !.current_line = Top(s.loop_stack)], st, TRUE)
    ELSE StmtErr(stored, st, "Loop start not found")

\* variant: a Next that leaves the loop pops the loop records only
NextExit_PopsLoops(s) ==
    [s EXCEPT !.loops = Pop(s.loops), !.for_vals = Pop(s.for_vals)]

\* a Next that leaves the loop: pop both stacks
NextExit(s) ==
    [s EXCEPT !.loops = Pop(s.loops), !.loop_stack = Pop(s.loop_stack),
              !.for_vals = Pop(s.for_vals)]

\* variant: the new value is stored before the test, also when the loop is left
NextDecide_StoreFirst(s, st, step, next_val, end) ==
    IF NextContinues(step, next_val, end)
    THEN NextJump(s, st, next_val,
                  [s EXCEPT !.variables = Insert(s.variables, st.variable, next_val)])
    ELSE StmtOk(NextExit([s EXCEPT !.variables = Insert(s.variables, st.variable, next_val)]),
                st, FALSE)

NextDecide(s, st, step, next_val, end) ==
    IF NextContinues(step, next_val, end)
    THEN NextJump(s, st, next_val,
                  [s EXCEPT !.variables = Insert(s.variables, st.variable, next_val)])
    ELSE StmtOk(NextExit(s), st, FALSE)

\* variant: the new value is stored as soon as the step is known, before the end
NextWith_StoreBeforeEnd(s, st, current, step, end) ==
    IF ~step.ok THEN StmtErr(s, st, step.msg)
    ELSE IF step.v.tag # "Number" THEN StmtErr(s, st, "Step must be a number")
    ELSE IF ~end.ok
    THEN StmtErr([s EXCEPT !.variables =
                      Insert(s.variables, st.variable, RatAdd(current, step.v.n))],
                 st, end.msg)
    ELSE IF end.v.tag # "Number" THEN StmtErr(s, st, "End must be a number")
    ELSE NextDecide(s, st, step.v.n, RatAdd(current, step.v.n), end.v.n)

NextWith(s, st, current, step, end) ==
    IF ~step.ok THEN StmtErr(s, st, step.msg)
    ELSE IF step.v.tag # "Number" THEN StmtErr(s, st, "Step must be a number")
    ELSE IF ~end.ok THEN StmtErr(s, st, end.msg)
    ELSE IF end.v.tag # "Number" THEN StmtErr(s, st, "End must be a number")
    ELSE NextDecide(s, st, step.v.n, RatAdd(current, step.v.n), end.v.n)

\* the step and the end of the innermost loop as Next computes them
NextStepValue(s) == evaluate_expression(Top(s.loops).step, s.variables)

\* variant: the end computed when the For ran
NextEndValue_Cached(s) == Ok(VNumber(Top(s.for_vals).end))

NextEndValue(s) == evaluate_expression(Top(s.loops).end, s.variables)

\* variant: any active loop on the variable matches
NextMatches_Search(s, st) == \E i \in 1..Len(s.loops) : s.loops[i].variable = st.variable

\* the test of the Next variable against the innermost loop
NextMatches(s, st) == Top(s.loops).variable = st.variable

execNext(s, st) ==
    IF s.loops # <<>>
    THEN IF ~NextMatches(s, st) THEN StmtErr(s, st, "NEXT doesn't match FOR")
         ELSE IF st.variable \notin DOMAIN s.variables THEN StmtPanic(s, st)
         ELSE NextWith(s, st, s.variables[st.variable], NextStepValue(s), NextEndValue(s))
    ELSE StmtErr(s, st, "NEXT without FOR")

execEnd(s, st) == StmtOk([s EXCEPT !.running = FALSE], st, FALSE)

RECURSIVE execute_statement(_, _, _)
IfWith(s, st, input, value) ==
    IF ~value.ok THEN StmtErr(s, st, value.msg)
    ELSE IF value.v.tag = "Number"
    THEN IF value.v.n # Zero THEN execute_statement(s, st.then_branch, input)
         ELSE IF st.has_else THEN execute_statement(s, st.else_branch, input)
         ELSE StmtOk(s, st, FALSE)
    ELSE StmtErr(s, st, "Condition must evaluate to a number")

execIf(s, st, input) == IfWith(s, st, input, evaluate_expression(st.condition, s.variables))

execute_statement(s, st, input) ==
    CASE st.kind = "Print" -> execPrint(s, st)
      [] st.kind = "Let" -> execLet(s, st)
      [] st.kind = "If" -> execIf(s, st, input)
      [] st.kind = "Input" -> execInput(s, st, input)
      [] st.kind = "For" -> execFor(s, st)
      [] st.kind = "Next" -> execNext(s, st)
      [] st.kind = "End" -> execEnd(s, st)
      [] OTHER -> StmtErr(s, st, "Statement not implemented yet")

-----------------------------------------------------------------------------
(* Interpreter::execute_program: one iteration of its while loop *)

\* variant: the loop condition without the running flag
LoopContinues_IgnoresRunning(s, prog) == s.current_line < Len(prog)

\* the loop condition
LoopContinues(s, prog) == s.running /\ s.current_line < Len(prog)

\* variant: no advance once the running flag is cleared
Advance_WhileRunning(s) ==
    IF s.running THEN [s EXCEPT !.current_line = s.current_line + 1] ELSE s

\* the counter after a statement that returned Ok
Advance(s) == [s EXCEPT !.current_line = s.current_line + 1]

\* variant: the error names the line counted from one
ErrorAt_OneBased(s, m) == [tag |-> "Err", line |-> s.current_line + 1, msg |-> m]

\* the error execute_program returns for a failed statement
ErrorAt(s, m) == [tag |-> "Err", line |-> s.current_line, msg |-> m]

ReturnOk == [tag |-> "Ok"]
InLoop == [tag |-> "none"]
Panicked == [tag |-> "Panic"]

\* what execute_program has returned once the state is t
Returned(t, prog) == IF LoopContinues(t, prog) THEN InLoop ELSE ReturnOk

\* the match on the result r of execute_statement
Driver(r, prog) ==
    IF r.ok
    THEN [s |-> Advance(r.s), r |-> r, result |-> Returned(Advance(r.s), prog)]
    ELSE [s |-> r.s, r |-> r, result |-> IF r.panic THEN Panicked ELSE ErrorAt(r.s, r.msg)]

Iteration(s, prog, input) == Driver(execute_statement(s, prog[s.current_line + 1], input), prog)

-----------------------------------------------------------------------------
(* Compiler (src/src/compiler.rs).  The emitted Rust text is modelled by    *)
(* its statements, one record per emitted line that does something, and an  *)
(* emitted expression by its term.                                          *)

\* format!("{:.1}", n): the decimal with one fractional digit nearest to n,
\* the even one of two equally near
Round1(q) ==
    LET tenfold == (q.n * 10) \div q.d
        twice_rest == 2 * ((q.n * 10) % q.d)
    IN  IF twice_rest < q.d THEN Rat(tenfold, 10)
        ELSE IF twice_rest > q.d THEN Rat(tenfold + 1, 10)
        ELSE IF tenfold % 2 = 0 THEN Rat(tenfold, 10)
        ELSE Rat(tenfold + 1, 10)


\* An emitted expression is a term: lit (a float literal), str (a string
\* literal), get (*variables.get(name).unwrap()), bin (an arithmetic
\* operator or powf), cmp (if l op r { 1.0 } else { 0.0 }), call (a method
\* on the argument).  An emitted line is a record whose op names the line:
\* print, print_space, println, insert, input, let_mut, while, insert_local,
\* add_one, close, return.
Emitted(e) == [ok |-> TRUE, e |-> e]
CompilePanic == [ok |-> FALSE]

ArithmeticText ==
    [Plus |-> "+", Minus |-> "-", Multiply |-> "*", Divide |-> "/", Power |-> "powf"]
ComparisonText ==
    [LessThan |-> "<", GreaterThan |-> ">", Equals |-> "==", LessOrEqual |-> "<=",
     GreaterOrEqual |-> ">=", NotEqual |-> "!="]
MethodText ==
    [ABS |-> "abs", SQR |-> "sqrt", SIN |-> "sin", COS |-> "cos", TAN |-> "tan", INT |-> "floor"]

RECURSIVE compile_expression(_)
CompileBinary(operator, left, right) ==
    IF ~left.ok \/ ~right.ok THEN CompilePanic
    ELSE IF operator \in DOMAIN ArithmeticText
    THEN Emitted([k |-> "bin", op |-> ArithmeticText[operator], left |-> left.e, right |-> right.e])
    ELSE IF operator \in DOMAIN ComparisonText
    THEN Emitted([k |-> "cmp", op |-> ComparisonText[operator], left |-> left.e, right |-> right.e])
    ELSE CompilePanic

CompileCall(name, arguments) ==
    CASE name \in DOMAIN MethodText ->
            IF Len(arguments) = 0 THEN CompilePanic
            ELSE IF \E i \in 1..Len(arguments) : ~compile_expression(arguments[i]).ok
            THEN CompilePanic
            ELSE Emitted([k |-> "call", f |-> MethodText[name],
                          arg |-> compile_expression(arguments[1]).e])
      [] name = "RND" ->
            IF \E i \in 1..Len(arguments) : ~compile_expression(arguments[i]).ok
            THEN CompilePanic
            ELSE Emitted([k |-> "call", f |-> "random"])
      [] OTHER -> CompilePanic

compile_expression(expr) ==
    CASE expr.kind = "Number" -> Emitted([k |-> "lit", n |-> Round1(expr.n)])
      [] expr.kind = "String" -> Emitted([k |-> "str", s |-> expr.s])
      [] expr.kind = "Variable" -> Emitted([k |-> "get", name |-> expr.name])
      [] expr.kind = "Binary" ->
            CompileBinary(expr.operator, compile_expression(expr.left),
                          compile_expression(expr.right))
      [] expr.kind = "FunctionCall" -> CompileCall(expr.name, expr.arguments)

\* the result of compile_statement: the lines and the indentation level after them
Lines(code, indent_level) == [ok |-> TRUE, code |-> code, indent_level |-> indent_level]

RECURSIVE CompilePrint(_, _, _)
CompilePrint(expressions, i, code) ==
    IF i > Len(expressions) THEN [ok |-> TRUE, code |-> code]
    ELSE IF ~compile_expression(expressions[i]).ok THEN CompilePanic
    ELSE CompilePrint(expressions, i + 1,
            (IF i > 1 THEN Append(code, [op |-> "print_space"]) ELSE code)
                \o << [op |-> "print", e |-> compile_expression(expressions[i]).e] >>)

PrintLines(st, printed, indent_level) ==
    IF ~printed.ok THEN CompilePanic
    ELSE Lines(IF st.semicolon THEN printed.code ELSE Append(printed.code, [op |-> "println"]),
               indent_level)

LetLines(st, expression, indent_level) ==
    IF ~expression.ok THEN CompilePanic
    ELSE Lines(<< [op |-> "insert", variable |-> st.variable, e |-> expression.e] >>, indent_level)

ForLines(var, start, end, step, indent_level) ==
    IF ~start.ok \/ ~end.ok \/ ~step.ok THEN CompilePanic
    ELSE Lines(<< [op |-> "let_mut", variable |-> var, e |-> start.e],
               [op |-> "while", variable |-> var, e |-> end.e],
               [op |-> "insert_local", variable |-> var] >>,
               indent_level + 1)

\* the increment emitted for a Next
NextIncrement(variable) == [op |-> "add_one", variable |-> variable]

\* indent_level is a usize: decrementing it at zero panics (checked build) or
\* wraps and makes the following indent() panic
NextLines(st, indent_level) ==
    IF indent_level = 0 THEN CompilePanic
    ELSE Lines(<< NextIncrement(st.variable), [op |-> "close"] >>, indent_level - 1)

compile_statement(st, indent_level) ==
    CASE st.kind = "Print" ->
            PrintLines(st, CompilePrint(st.expressions, 1, << >>), indent_level)
      [] st.kind = "Let" -> LetLines(st, compile_expression(st.expression), indent_level)
      [] st.kind = "Input" -> Lines(<< [op |-> "input", variable |-> st.variable] >>, indent_level)
      [] st.kind = "For" ->
            ForLines(st.loop_data.variable,
                     compile_expression(st.loop_data.start),
                     compile_expression(st.loop_data.end),
                     compile_expression(st.loop_data.step), indent_level)
      [] st.kind = "Next" -> NextLines(st, indent_level)
      [] st.kind = "End" -> Lines(<< [op |-> "return"] >>, indent_level)
      [] OTHER -> CompilePanic

RECURSIVE CompileLines(_, _, _, _)
CompileNext(prog, i, code, compiled) ==
    IF ~compiled.ok THEN CompilePanic
    ELSE CompileLines(prog, i + 1, compiled.indent_level, code \o compiled.code)

CompileLines(prog, i, indent_level, code) ==
    IF i > Len(prog) THEN Lines(code, indent_level)
    ELSE CompileNext(prog, i, code, compile_statement(prog[i], indent_level))

\* compile_program: main's body is compiled at indentation level 1
compile_program(prog) == CompileLines(prog, 1, 1, << >>)

-----------------------------------------------------------------------------
(* rustc on the emitted text: whether it yields an executable *)

RECURSIVE HasF64(_)
\* the receiver of a method call must have a known float type: a literal
\* alone is an ambiguous {float}
HasF64(e) ==
    CASE e.k = "get" -> TRUE
      [] e.k = "call" -> TRUE
      [] e.k = "bin" -> HasF64(e.left) \/ HasF64(e.right)
      [] OTHER -> FALSE

RECURSIVE IsFloat(_)
IsFloat(e) ==
    CASE e.k = "lit" -> TRUE
      [] e.k = "get" -> TRUE
      [] e.k = "str" -> FALSE
      [] e.k = "bin" ->
            /\ IsFloat(e.left) /\ IsFloat(e.right)
            /\ (e.op = "powf" => HasF64(e.left))
      [] e.k = "cmp" ->
            \/ IsFloat(e.left) /\ IsFloat(e.right)
            \/ e.left.k = "str" /\ e.right.k = "str"
      [] e.k = "call" -> e.f # "random" /\ IsFloat(e.arg)

\* the names bound by let in the open blocks
InScope(scopes, v) == \E i \in 1..Len(scopes) : v \in scopes[i]

RECURSIVE Accepts(_, _, _)
Accepts(code, i, scopes) ==
    IF i > Len(code) THEN Len(scopes) = 1
    ELSE CASE code[i].op = "print" ->
                (code[i].e.k = "str" \/ IsFloat(code[i].e)) /\ Accepts(code, i + 1, scopes)
           [] code[i].op = "insert" -> IsFloat(code[i].e) /\ Accepts(code, i + 1, scopes)
           [] code[i].op = "let_mut" ->
                /\ IsFloat(code[i].e)
                /\ Accepts(code, i + 1,
                        [scopes EXCEPT ![Len(scopes)] = @ \cup {code[i].variable}])
           [] code[i].op = "while" ->
                /\ InScope(scopes, code[i].variable)
                /\ IsFloat(code[i].e)
                /\ Accepts(code, i + 1, Append(scopes, {}))
           [] code[i].op \in {"insert_local", "add_one"} ->
                InScope(scopes, code[i].variable) /\ Accepts(code, i + 1, scopes)
           [] code[i].op = "close" -> Len(scopes) > 1 /\ Accepts(code, i + 1, Pop(scopes))
           [] OTHER -> Accepts(code, i + 1, scopes)

-----------------------------------------------------------------------------
(* The executable: f64 arithmetic without the interpreter's tests.  A value *)
(* n/0 stands for an infinity (n = 1, n = -1) or for NaN (n = 0).           *)

Inf(sign) == [n |-> sign, d |-> 0]
NaN == [n |-> 0, d |-> 0]
Finite(a) == a.d # 0
Sign(a) == IF a.n > 0 THEN 1 ELSE IF a.n < 0 THEN -1 ELSE 0

FAdd(a, b) ==
    IF a = NaN \/ b = NaN THEN NaN
    ELSE IF Finite(a) /\ Finite(b) THEN RatAdd(a, b)
    ELSE IF ~Finite(a) /\ ~Finite(b) THEN (IF a = b THEN a ELSE NaN)
    ELSE IF Finite(a) THEN b ELSE a

FNeg(a) == [n |-> -a.n, d |-> a.d]

FMul(a, b) ==
    IF a = NaN \/ b = NaN THEN NaN
    ELSE IF Finite(a) /\ Finite(b) THEN RatMul(a, b)
    ELSE IF Sign(a) * Sign(b) = 0 THEN NaN ELSE Inf(Sign(a) * Sign(b))

FDiv(a, b) ==
    IF a = NaN \/ b = NaN THEN NaN
    ELSE IF Finite(a) /\ Finite(b)
    THEN (IF b # Zero THEN RatDiv(a, b) ELSE IF a = Zero THEN NaN ELSE Inf(Sign(a)))
    ELSE IF ~Finite(a) /\ ~Finite(b) THEN NaN
    ELSE IF Finite(a) THEN Zero
    ELSE Inf(Sign(a) * (IF Sign(b) < 0 THEN -1 ELSE 1))

FLt(a, b) ==
    /\ a # NaN /\ b # NaN /\ a # b
    /\ IF Finite(a) /\ Finite(b) THEN RatLt(a, b)
       ELSE IF ~Finite(a) THEN a.n < 0 ELSE b.n > 0

FEq(a, b) == a # NaN /\ b # NaN /\ a = b
FLe(a, b) == FLt(a, b) \/ FEq(a, b)

FArith(op, a, b) ==
    CASE op = "+" -> FAdd(a, b)
      [] op = "-" -> FAdd(a, FNeg(b))
      [] op = "*" -> FMul(a, b)
      [] op = "/" -> FDiv(a, b)
      [] op = "powf" /\ Finite(a) /\ Finite(b) -> RatPowf(a, b)

FCompare(op, a, b) ==
    CASE op = "<" -> FLt(a, b)
      [] op = ">" -> FLt(b, a)
      [] op = "==" -> FEq(a, b)
      [] op = "<=" -> FLe(a, b)
      [] op = ">=" -> FLe(b, a)
      [] op = "!=" -> ~FEq(a, b)

FMethod(f, a) ==
    CASE f = "abs" -> [n |-> AbsInt(a.n), d |-> a.d]
      [] f = "floor" -> IF Finite(a) THEN RatFloor(a) ELSE a
      [] f = "sqrt" -> IF a = NaN \/ a.n < 0 THEN NaN ELSE IF Finite(a) THEN RatSqrt(a) ELSE a

\* the value of an emitted expression; a get of an absent key panics in unwrap
RECURSIVE RustEval(_, _)
RustBinary(e, left, right) ==
    IF ~left.ok \/ ~right.ok THEN [ok |-> FALSE]
    ELSE IF e.k = "bin" THEN Ok(VNumber(FArith(e.op, left.v.n, right.v.n)))
    ELSE IF left.v.tag = "Number"
    THEN Ok(VNumber(IF FCompare(e.op, left.v.n, right.v.n) THEN One ELSE Zero))
    ELSE Ok(VNumber(CASE e.op = "==" -> IF left.v = right.v THEN One ELSE Zero
                      [] e.op = "!=" -> IF left.v # right.v THEN One ELSE Zero))

RustCall(e, arg) == IF ~arg.ok THEN arg ELSE Ok(VNumber(FMethod(e.f, arg.v.n)))

RustEval(e, vs) ==
    CASE e.k = "lit" -> Ok(VNumber(e.n))
      [] e.k = "str" -> Ok(VString(e.s))
      [] e.k = "get" -> IF e.name \in DOMAIN vs THEN Ok(VNumber(vs[e.name])) ELSE [ok |-> FALSE]
      [] e.k \in {"bin", "cmp"} -> RustBinary(e, RustEval(e.left, vs), RustEval(e.right, vs))
      [] e.k = "call" -> RustCall(e, RustEval(e.arg, vs))

\* the innermost binding of a local
RECURSIVE LocalIndex(_, _, _)
LocalIndex(locals, v, i) ==
    IF locals[i].variable = v THEN i ELSE LocalIndex(locals, v, i - 1)

Local(x, v) == x.locals[LocalIndex(x.locals, v, Len(x.locals))].value

\* the closing brace of the block opened by the while at index w
RECURSIVE ScanClose(_, _, _)
ScanClose(code, i, depth) ==
    CASE code[i].op = "while" -> ScanClose(code, i + 1, depth + 1)
      [] code[i].op = "close" -> IF depth = 0 THEN i ELSE ScanClose(code, i + 1, depth - 1)
      [] OTHER -> ScanClose(code, i + 1, depth)

MatchingClose(code, w) == ScanClose(code, w + 1, 0)

\* the bindings that outlive the block of nesting depth d
RECURSIVE Outliving(_, _)
Outliving(locals, d) ==
    IF locals = << >> THEN << >>
    ELSE IF Top(locals).depth >= d THEN Outliving(Pop(locals), d)
    ELSE locals

Goto(x, pc) == [x EXCEPT !.pc = pc, !.steps = x.steps + 1]
Step(x) == Goto(x, x.pc + 1)
Panic(x) == [x EXCEPT !.status = "panic", !.steps = x.steps + 1]

\* print!("{}", e)
RunPrintWith(x, value) ==
    IF ~value.ok THEN Panic(x) ELSE Step([x EXCEPT !.output = Append(x.output, value.v)])

\* variables.insert(name, e)
RunInsertWith(x, variable, value) ==
    IF ~value.ok THEN Panic(x)
    ELSE Step([x EXCEPT !.variables = Insert(x.variables, variable, value.v.n)])

\* the prompt, read_line(..).unwrap() and parse::<f64>().unwrap()
RunInputWith(x, variable, input) ==
    IF ~input.read \/ ~input.numeric
    THEN Panic([x EXCEPT !.output = Append(x.output, Prompt(variable)), !.read = x.read + 1])
    ELSE Step([x EXCEPT !.output = Append(x.output, Prompt(variable)),
                        !.read = x.read + 1,
                        !.variables = Insert(x.variables, variable, input.n)])

\* let mut v = e
RunLetMutWith(x, variable, value) ==
    IF ~value.ok THEN Panic(x)
    ELSE Step([x EXCEPT !.locals = Append(x.locals,
                 [variable |-> variable, value |-> value.v.n, depth |-> Len(x.blocks)])])

\* while v <= e {
RunWhileWith(x, variable, value) ==
    IF ~value.ok THEN Panic(x)
    ELSE IF FLe(Local(x, variable), value.v.n)
    THEN Step([x EXCEPT !.blocks = Append(x.blocks, x.pc)])
    ELSE Goto(x, MatchingClose(x.code, x.pc) + 1)

\* v += 1.0
RunAddOneOn(x, i) ==
    Step([x EXCEPT !.locals[i].value = FAdd(x.locals[i].value, One)])

\* }: the end of the body of the innermost while, back to its test
RunCloseOn(x) ==
    Goto([x EXCEPT !.locals = Outliving(x.locals, Len(x.blocks)), !.blocks = Pop(x.blocks)],
         Top(x.blocks))

\* main of temp.rs at its first line, when compile_program returns and rustc
\* accepts the text; otherwise there is no code.exe
Build(compiled) ==
    [status |-> IF compiled.ok /\ Accepts(compiled.code, 1, << {} >>) THEN "running" ELSE "none",
     code |-> IF compiled.ok THEN compiled.code ELSE << >>,
     pc |-> 1, variables |-> << >>, locals |-> << >>, blocks |-> << >>,
     output |-> << >>, read |-> 0, steps |-> 0]

-----------------------------------------------------------------------------
(* The programs handed to execute_program.  They are syntax trees the parser *)
(* can produce: number literals are never negative, a negative constant is   *)
(* the tree of 0 - k.                                                        *)

Lit(k) == IF k >= 0 THEN ENumber(k) ELSE EBinary(ENumber(0), "Minus", ENumber(-k))

V(name) == EVariable(name)
Print1(e) == SPrint(<<e>>, FALSE)

\* FOR I = a TO b STEP s / PRINT I / NEXT I / PRINT "DONE" / END
ForFamily ==
    { << SFor("I", Lit(a), Lit(b), Lit(s)), Print1(V("I")), SNext("I"),
         Print1(EString("DONE")), SEnd >> :
      a \in -MaxVal..MaxVal, b \in -MaxVal..MaxVal, s \in -MaxVal..MaxVal }

\* every program of at most MaxLines lines over a small statement alphabet
Alphabet ==
    { SFor("I", ENumber(1), ENumber(2), ENumber(1)),
      SFor("J", ENumber(2), ENumber(1), Lit(-1)),
      SNext("I"),
      SNext("J"),
      Print1(V("I")),
      SIfElse(EBinary(V("I"), "LessThan", ENumber(2)), SNext("I"), SEnd),
      SEnd }

RECURSIVE SeqsUpTo(_, _)
SeqsUpTo(S, n) ==
    IF n = 0 THEN { <<>> }
    ELSE LET shorter == SeqsUpTo(S, n - 1)
         IN  shorter \cup { Append(p, x) : p \in {q \in shorter : Len(q) = n - 1}, x \in S }

AlphabetPrograms == SeqsUpTo(Alphabet, MaxLines)

Scenarios ==
    { \* LET X = 5 / PRINT X / END
      << SLet("X", ENumber(5)), Print1(V("X")), SEnd >>,
      \* FOR I = 1 TO 3 / PRINT I / NEXT I / END
      << SFor("I", ENumber(1), ENumber(3), ENumber(1)), Print1(V("I")), SNext("I"), SEnd >>,
      \* PRINT 3 > 2 / PRINT 2 > 3 ; / END
      << Print1(EBinary(ENumber(3), "GreaterThan", ENumber(2))),
         SPrint(<<EBinary(ENumber(2), "GreaterThan", ENumber(3))>>, TRUE), SEnd >>,
      \* PRINT 1/0 / END
      << Print1(EBinary(ENumber(1), "Divide", ENumber(0))), SEnd >>,
      \* PRINT 7, 1 + 2 * (3 / (1 - 1)), 8 / PRINT "NO"
      << SPrint(<< ENumber(7),
                   EBinary(ENumber(1), "Plus",
                     EBinary(ENumber(2), "Multiply",
                       EBinary(ENumber(3), "Divide",
                         EBinary(ENumber(1), "Minus", ENumber(1))))),
                   ENumber(8) >>, FALSE),
         Print1(EString("NO")) >>,
      \* LET X = ABS(0 - 3) / LET Y = INT(X / 2) / LET Z = SQR(4) ^ 2 / PRINT X, Y, Z / LET W = ABS("A" / 0)
      << SLet("X", EFunctionCall("ABS", <<Lit(-3)>>)),
         SLet("Y", EFunctionCall("INT", <<EBinary(V("X"), "Divide", ENumber(2))>>)),
         SLet("Z", EBinary(EFunctionCall("SQR", <<ENumber(4)>>), "Power", ENumber(2))),
         SPrint(<<V("X"), V("Y"), V("Z")>>, FALSE),
         SLet("W", EFunctionCall("ABS", <<EBinary(EString("A"), "Divide", ENumber(0))>>)) >>,
      \* LET N = 3 / FOR I = 1 TO N / LET N = N - 1 / PRINT I / NEXT I / END
      << SLet("N", ENumber(3)), SFor("I", ENumber(1), V("N"), ENumber(1)),
         SLet("N", EBinary(V("N"), "Minus", ENumber(1))), Print1(V("I")), SNext("I"), SEnd >>,
      \* LET S = 1 / FOR I = 1 TO 4 STEP S / LET S = S - 1 / PRINT I / NEXT I / PRINT S
      << SLet("S", ENumber(1)), SFor("I", ENumber(1), ENumber(4), V("S")),
         SLet("S", EBinary(V("S"), "Minus", ENumber(1))), Print1(V("I")), SNext("I"),
         Print1(V("S")) >>,
      \* FOR I = 1 TO 2 / FOR J = 1 TO 2 / PRINT I, J / NEXT J / NEXT I / PRINT "END"
      << SFor("I", ENumber(1), ENumber(2), ENumber(1)),
         SFor("J", ENumber(1), ENumber(2), ENumber(1)),
         SPrint(<<V("I"), V("J")>>, FALSE), SNext("J"), SNext("I"), Print1(EString("END")) >>,
      \* FOR I = 1 TO 2 / FOR J = 1 TO 2 / NEXT I / PRINT "NO"
      << SFor("I", ENumber(1), ENumber(2), ENumber(1)),
         SFor("J", ENumber(1), ENumber(2), ENumber(1)), SNext("I"), Print1(EString("NO")) >>,
      \* PRINT "A" / NEXT I / PRINT "NO"
      << Print1(EString("A")), SNext("I"), Print1(EString("NO")) >>,
      \* FOR I = 1 TO 3 / PRINT I / IF I < 3 THEN NEXT I / PRINT "OUT" / NEXT I / PRINT "NO"
      << SFor("I", ENumber(1), ENumber(3), ENumber(1)), Print1(V("I")),
         SIf(EBinary(V("I"), "LessThan", ENumber(3)), SNext("I")),
         Print1(EString("OUT")), SNext("I"), Print1(EString("NO")) >>,
      \* FOR I = 1 TO 3 / IF I = 2 THEN END ELSE PRINT I / NEXT I / PRINT "NO"
      << SFor("I", ENumber(1), ENumber(3), ENumber(1)),
         SIfElse(EBinary(V("I"), "Equals", ENumber(2)), SEnd, Print1(V("I"))),
         SNext("I"), Print1(EString("NO")) >>,
      \* INPUT N / FOR I = 1 TO N / PRINT I / NEXT I
      << SInput("N"), SFor("I", ENumber(1), V("N"), ENumber(1)), Print1(V("I")), SNext("I") >>,
      \* LET X = 1 / IF X THEN INPUT X ELSE END / IF X <> 1 THEN LET X = "A" / PRINT X
      << SLet("X", ENumber(1)), SIfElse(V("X"), SInput("X"), SEnd),
         SIf(EBinary(V("X"), "NotEqual", ENumber(1)), SLet("X", EString("A"))),
         Print1(V("X")) >>,
      \* FOR I = 0 TO 4 / 2 - I / 2 STEP 1 / 2: the end is re-evaluated with I
      << SFor("I", ENumber(0),
              EBinary(EBinary(ENumber(4), "Divide", ENumber(2)), "Minus",
                      EBinary(V("I"), "Divide", ENumber(2))),
              EBinary(ENumber(1), "Divide", ENumber(2))),
         Print1(V("I")), SNext("I"), Print1(V("I")) >>,
      \* LET I = 0 / FOR I = 1 TO 8 / (2 - I) / PRINT I / NEXT I / PRINT "NO"
      << SLet("I", ENumber(0)),
         SFor("I", ENumber(1),
              EBinary(ENumber(8), "Divide", EBinary(ENumber(2), "Minus", V("I"))), ENumber(1)),
         Print1(V("I")), SNext("I"), Print1(EString("NO")) >>,
      \* FOR I = 1 TO "A" / PRINT "NO"
      << SFor("I", ENumber(1), EString("A"), ENumber(1)), Print1(EString("NO")) >>,
      \* IF "A" THEN END / PRINT "NO"
      << SIf(EString("A"), SEnd), Print1(EString("NO")) >>,
      \* IF 1 THEN IF 0 THEN END ELSE LET X = Y / PRINT "NO"
      << SIf(ENumber(1), SIfElse(ENumber(0), SEnd, SLet("X", V("Y")))), Print1(EString("NO")) >>,
      \* IF 0 THEN END / REM / PRINT "NO"
      << SIf(ENumber(0), SEnd), SRem("R"), Print1(EString("NO")) >>,
      \* IF 1 THEN FOR I = 2 TO 1 / PRINT I / NEXT I
      << SIf(ENumber(1), SFor("I", ENumber(2), ENumber(1), ENumber(1))), Print1(V("I")),
         SNext("I") >>,
      \* LET X = 0.25 / PRINT X, 0.25 / END
      << SLet("X", EDecimal(1, 4)), SPrint(<<V("X"), EDecimal(1, 4)>>, FALSE), SEnd >>,
      \* LET X = 4 / 0 / PRINT "A"; / END
      << SLet("X", EBinary(ENumber(4), "Divide", ENumber(0))), SPrint(<<EString("A")>>, TRUE),
         SEnd >>,
      \* LET S = 1 / FOR I = 1 TO 3 STEP 1 / S / LET S = S - 1 / NEXT I / PRINT "NO"
      << SLet("S", ENumber(1)),
         SFor("I", ENumber(1), ENumber(3), EBinary(ENumber(1), "Divide", V("S"))),
         SLet("S", EBinary(V("S"), "Minus", ENumber(1))), SNext("I"), Print1(EString("NO")) >>,
      \* LET X = 1 / FOR I = X TO 2 STEP 1 / 0 / PRINT "NO"
      << SLet("X", ENumber(1)),
         SFor("I", V("X"), ENumber(2), EBinary(ENumber(1), "Divide", ENumber(0))),
         Print1(EString("NO")) >>,
      \* FOR I = 1 TO 3 / LET I = 1 / NEXT I: never leaves the loop
      << SFor("I", ENumber(1), ENumber(3), ENumber(1)), SLet("I", ENumber(1)),
         Print1(V("I")), SNext("I") >> }

Programs == ForFamily \cup AlphabetPrograms \cup Scenarios

InputLines == {NumberLine(0), NumberLine(MaxVal), TextLine, ReadFailure}

-----------------------------------------------------------------------------
(* Interpreter::new followed by the entry of execute_program *)

front_end == <<source, tokens, parsed>>

\* parse_program has not been called
NotParsed == [done |-> FALSE]

Init ==
    /\ program \in Programs
    /\ variables = << >>
    /\ loops = << >>
    /\ loop_stack = << >>
    /\ for_vals = << >>
    /\ current_line = 0
    /\ running = TRUE
    /\ output = << >>
    /\ result = IF Len(program) > 0 THEN InLoop ELSE ReturnOk
    /\ last = [executed |-> FALSE]
    /\ steps = 0
    /\ stdin = << >>
    /\ exe = Build(compile_program(program))
    /\ source = << >>
    /\ tokens = << >>
    /\ parsed = NotParsed

\* the statement at the program counter
CurrentStatement == program[current_line + 1]

\* one iteration of the loop of execute_program
Execute(inputs) ==
    /\ \E input \in inputs :
        \E it \in {Iteration(State, program, input)} :
              /\ variables' = it.s.variables
              /\ loops' = it.s.loops
              /\ loop_stack' = it.s.loop_stack
              /\ for_vals' = it.s.for_vals
              /\ current_line' = it.s.current_line
              /\ running' = it.s.running
              /\ output' = it.s.output
              /\ result' = it.result
              /\ last' = [executed |-> TRUE, line |-> current_line,
                           stmt |-> CurrentStatement, leaf |-> it.r.leaf,
                           ok |-> it.r.ok, cont |-> it.r.cont]
              /\ stdin' = IF it.r.leaf.kind = "Input" THEN Append(stdin, input) ELSE stdin
    /\ steps' = steps + 1
    /\ UNCHANGED <<program, exe, front_end>>

\* the loop is still iterating (and the exploration bound is not reached)
Iterating == result = InLoop /\ steps < MaxSteps

NoInput == {ReadFailure}

ExecutePrint ==
    /\ Iterating
    /\ CurrentStatement.kind = "Print"
    /\ Execute(NoInput)

ExecuteLet ==
    /\ Iterating
    /\ CurrentStatement.kind = "Let"
    /\ Execute(NoInput)

ExecuteIf ==
    /\ Iterating
    /\ CurrentStatement.kind = "If"
    /\ Execute(InputLines)

ExecuteInput ==
    /\ Iterating
    /\ CurrentStatement.kind = "Input"
    /\ Execute(InputLines)

ExecuteFor ==
    /\ Iterating
    /\ CurrentStatement.kind = "For"
    /\ Execute(NoInput)

ExecuteNext ==
    /\ Iterating
    /\ CurrentStatement.kind = "Next"
    /\ Execute(NoInput)

ExecuteEnd ==
    /\ Iterating
    /\ CurrentStatement.kind = "End"
    /\ Execute(NoInput)

ExecuteRem ==
    /\ Iterating
    /\ CurrentStatement.kind = "Rem"
    /\ Execute(NoInput)

Next ==
    \/ ExecutePrint
    \/ ExecuteLet
    \/ ExecuteIf
    \/ ExecuteInput
    \/ ExecuteFor
    \/ ExecuteNext
    \/ ExecuteEnd
    \/ ExecuteRem

Spec == Init /\ [][Next]_vars

-----------------------------------------------------------------------------
(* The run of code.exe on the standard input the interpreter was given,     *)
(* one action per emitted line.                                             *)

interpreter == <<program, variables, loops, loop_stack, current_line, running,
                 output, result, for_vals, last, steps, stdin>>

\* the interpreter has returned and main has a line to execute
AtLine ==
    /\ result # InLoop
    /\ exe.status = "running"
    /\ exe.steps < MaxExeSteps
    /\ exe.pc <= Len(exe.code)

CurrentOp == exe.code[exe.pc]

\* the next line of standard input: what the interpreter read, then anything
NextInput == IF exe.read < Len(stdin) THEN {stdin[exe.read + 1]} ELSE InputLines

RunPrint ==
    /\ AtLine
    /\ CurrentOp.op = "print"
    /\ exe' = RunPrintWith(exe, RustEval(CurrentOp.e, exe.variables))
    /\ UNCHANGED <<interpreter, front_end>>

RunPrintSpace ==
    /\ AtLine
    /\ CurrentOp.op = "print_space"
    /\ exe' = Step([exe EXCEPT !.output = Append(exe.output, Space)])
    /\ UNCHANGED <<interpreter, front_end>>

RunPrintln ==
    /\ AtLine
    /\ CurrentOp.op = "println"
    /\ exe' = Step([exe EXCEPT !.output = Append(exe.output, Newline)])
    /\ UNCHANGED <<interpreter, front_end>>

RunInsert ==
    /\ AtLine
    /\ CurrentOp.op = "insert"
    /\ exe' = RunInsertWith(exe, CurrentOp.variable, RustEval(CurrentOp.e, exe.variables))
    /\ UNCHANGED <<interpreter, front_end>>

RunInput ==
    /\ AtLine
    /\ CurrentOp.op = "input"
    /\ \E input \in NextInput : exe' = RunInputWith(exe, CurrentOp.variable, input)
    /\ UNCHANGED <<interpreter, front_end>>

RunLetMut ==
    /\ AtLine
    /\ CurrentOp.op = "let_mut"
    /\ exe' = RunLetMutWith(exe, CurrentOp.variable, RustEval(CurrentOp.e, exe.variables))
    /\ UNCHANGED <<interpreter, front_end>>

RunWhile ==
    /\ AtLine
    /\ CurrentOp.op = "while"
    /\ exe' = RunWhileWith(exe, CurrentOp.variable, RustEval(CurrentOp.e, exe.variables))
    /\ UNCHANGED <<interpreter, front_end>>

RunInsertLocal ==
    /\ AtLine
    /\ CurrentOp.op = "insert_local"
    /\ exe' = Step([exe EXCEPT !.variables =
                        Insert(exe.variables, CurrentOp.variable, Local(exe, CurrentOp.variable))])
    /\ UNCHANGED <<interpreter, front_end>>

RunAddOne ==
    /\ AtLine
    /\ CurrentOp.op = "add_one"
    /\ exe' = RunAddOneOn(exe, LocalIndex(exe.locals, CurrentOp.variable, Len(exe.locals)))
    /\ UNCHANGED <<interpreter, front_end>>

RunClose ==
    /\ AtLine
    /\ CurrentOp.op = "close"
    /\ exe' = RunCloseOn(exe)
    /\ UNCHANGED <<interpreter, front_end>>

RunReturn ==
    /\ AtLine
    /\ CurrentOp.op = "return"
    /\ exe' = [exe EXCEPT !.status = "done", !.steps = exe.steps + 1]
    /\ UNCHANGED <<interpreter, front_end>>

\* the closing brace of main
RunMainEnd ==
    /\ result # InLoop
    /\ exe.status = "running"
    /\ exe.pc > Len(exe.code)
    /\ exe' = [exe EXCEPT !.status = "done"]
    /\ UNCHANGED <<interpreter, front_end>>

NextCompiled ==
    \/ ExecutePrint
    \/ ExecuteLet
    \/ ExecuteIf
    \/ ExecuteInput
    \/ ExecuteFor
    \/ ExecuteNext
    \/ ExecuteEnd
    \/ ExecuteRem
    \/ RunPrint
    \/ RunPrintSpace
    \/ RunPrintln
    \/ RunInsert
    \/ RunInput
    \/ RunLetMut
    \/ RunWhile
    \/ RunInsertLocal
    \/ RunAddOne
    \/ RunClose
    \/ RunReturn
    \/ RunMainEnd

SpecCompiled == Init /\ [][NextCompiled]_vars

-----------------------------------------------------------------------------
(* main up to the call of tokenize: the text read from code.bs *)

CharSet == {" ", "\n", "1", ".", "T", "o", "_", "\"", "<", "=", ">", "?"}

\* 1.2.3 / 10.25 / x1.5 / "a b / PRINT 1.5 / if A<=2 then end
ScenarioTexts ==
    { <<"1", ".", "2", ".", "3">>,
      <<"1", "0", ".", "2", "5">>,
      <<"x", "1", ".", "5">>,
      <<"\"", "a", " ", "b">>,
      <<"P", "R", "I", "N", "T", " ", "1", ".", "5">>,
      <<"i", "f", " ", "A", "<", "=", "2", " ", "t", "h", "e", "n", " ", "e", "n", "d", "\n">> }

Texts == UNION {[1..n -> CharSet] : n \in 0..MaxText} \cup ScenarioTexts

\* no program is loaded: the interpreter and the executable play no part
NoProgram ==
    /\ program = << >>
    /\ variables = << >>
    /\ loops = << >>
    /\ loop_stack = << >>
    /\ for_vals = << >>
    /\ current_line = 0
    /\ running = TRUE
    /\ output = << >>
    /\ result = ReturnOk
    /\ last = [executed |-> FALSE]
    /\ steps = 0
    /\ stdin = << >>
    /\ exe = Build(CompilePanic)

InitTokenize ==
    /\ NoProgram
    /\ source \in Texts
    /\ tokens = << >>
    /\ parsed = NotParsed

\* let mut tokens = tokenize(&contents)
Tokenize ==
    /\ tokens = << >>
    /\ tokens' = tokenize(source)
    /\ UNCHANGED <<interpreter, exe, source, parsed>>

SpecTokenize == InitTokenize /\ [][Tokenize]_vars

-----------------------------------------------------------------------------
(* main from Parser::new to the return of parse_program.  The token          *)
(* sequences are those tokenize returns for the texts above and those of     *)
(* statements written token by token.                                        *)

\* the tokens of a list of expressions separated by commas
RECURSIVE ExprTokens(_), ListTokens(_, _)
ListTokens(es, i) ==
    IF i > Len(es) THEN << >>
    ELSE (IF i > 1 THEN <<Tok("Comma")>> ELSE << >>) \o ExprTokens(es[i]) \o ListTokens(es, i + 1)

\* the tokens of an expression written without parentheses
ExprTokens(e) ==
    CASE e.kind = "Number" -> <<TNumber(e.n)>>
      [] e.kind = "String" -> <<TString(e.s)>>
      [] e.kind = "Variable" -> <<TIdentifier(e.name)>>
      [] e.kind = "Binary" -> ExprTokens(e.left) \o <<Tok(e.operator)>> \o ExprTokens(e.right)
      [] e.kind = "FunctionCall" ->
            <<TIdentifier(e.name), Tok("LParen")>> \o ListTokens(e.arguments, 1) \o <<Tok("RParen")>>

\* the tokens of a statement; STEP is written unless the step is the literal 1
RECURSIVE StatementTokens(_)
StatementTokens(st) ==
    CASE st.kind = "Let" ->
            <<Tok("Let"), TIdentifier(st.variable), Tok("Equals")>> \o ExprTokens(st.expression)
      [] st.kind = "Print" ->
            <<Tok("Print")>> \o ListTokens(st.expressions, 1)
                \o (IF st.semicolon THEN <<Tok("Semicolon")>> ELSE << >>)
      [] st.kind = "Input" -> <<Tok("Input"), TIdentifier(st.variable)>>
      [] st.kind = "Next" -> <<Tok("Next"), TIdentifier(st.variable)>>
      [] st.kind = "End" -> <<Tok("End")>>
      [] st.kind = "For" ->
            <<Tok("For"), TIdentifier(st.loop_data.variable), Tok("Equals")>>
                \o ExprTokens(st.loop_data.start) \o <<Tok("To")>> \o ExprTokens(st.loop_data.end)
                \o (IF st.loop_data.step = ENumber(1) THEN << >>
                    ELSE <<Tok("Step")>> \o ExprTokens(st.loop_data.step))
      [] st.kind = "If" ->
            <<Tok("If")>> \o ExprTokens(st.condition) \o <<Tok("Then")>>
                \o StatementTokens(st.then_branch)
                \o (IF st.has_else THEN <<Tok("Else")>> \o StatementTokens(st.else_branch)
                    ELSE << >>)

\* a statement on a line of its own, as tokenize ends it
LineTokens(st) == StatementTokens(st) \o <<EOL, EOF>>

Conditions == {ENumber(1), EBinary(EVariable("X"), "LessThan", ENumber(2))}

\* statements without an If of their own
SimpleStatements ==
    { SLet("X", EBinary(EVariable("X"), "Plus", ENumber(1))),
      SPrint(<<EVariable("X")>>, FALSE),
      SPrint(<<EVariable("X"), EString("A")>>, TRUE),
      SInput("X"),
      SFor("I", ENumber(1), ENumber(2), ENumber(1)),
      SFor("I", ENumber(2), ENumber(0), ENumber(2)),
      SNext("I"),
      SEnd }

\* then-branches whose end is marked: none is an If without an ELSE of its own
ThenStatements == SimpleStatements \cup {SIfElse(ENumber(0), SEnd, SNext("I"))}

\* a then-branch that an ELSE following it would join
OpenThenStatements == {SIf(ENumber(0), SEnd)}

ElseStatements ==
    {SEnd, SPrint(<<EString("NO")>>, FALSE), SLet("X", ENumber(0)), SIf(EVariable("X"), SEnd)}

IfStatements ==
    {SIfElse(c, s1, s2) :
        c \in Conditions, s1 \in ThenStatements \cup OpenThenStatements, s2 \in ElseStatements}
        \cup {SIf(c, s1) : c \in Conditions, s1 \in ThenStatements \cup OpenThenStatements}

\* primaries with their tokens: 1, ( X + 1 ), X, ABS ( X - 1 ), 2
Primary(e, ts) == [e |-> e, ts |-> ts]
FirstOperands ==
    { Primary(ENumber(1), ExprTokens(ENumber(1))),
      Primary(EBinary(EVariable("X"), "Plus", ENumber(1)),
              <<Tok("LParen")>> \o ExprTokens(EBinary(EVariable("X"), "Plus", ENumber(1)))
                  \o <<Tok("RParen")>>) }
SecondOperands ==
    { Primary(EVariable("X"), ExprTokens(EVariable("X"))),
      Primary(EFunctionCall("ABS", <<EBinary(EVariable("X"), "Minus", ENumber(1))>>),
              ExprTokens(EFunctionCall("ABS", <<EBinary(EVariable("X"), "Minus", ENumber(1))>>))) }
ThirdOperands == {Primary(ENumber(2), ExprTokens(ENumber(2)))}

BinaryOperators == ComparisonOps \cup {"Plus", "Minus", "Multiply", "Divide", "Power"}

\* LET Y = a op1 b op2 c
TwoOperatorTokens(a, op1, b, op2, c) ==
    <<Tok("Let"), TIdentifier("Y"), Tok("Equals")>>
        \o a.ts \o <<Tok(op1)>> \o b.ts \o <<Tok(op2)>> \o c.ts \o <<EOL, EOF>>

TwoOperatorLines ==
    { TwoOperatorTokens(a, op1, b, op2, c) :
        a \in FirstOperands, op1 \in BinaryOperators, b \in SecondOperands,
        op2 \in BinaryOperators, c \in ThirdOperands }

\* PRINT 1 + 2 ^ 3 ^ 4 * 5 < 6 - 7 / SQR ( 4 ) / LET = 1 / INPUT / X ( 1 , / ( 1
OtherLines ==
    { <<Tok("Print"), TNumber(One), Tok("Plus"), TNumber(Rat(2, 1)), Tok("Power"),
        TNumber(Rat(3, 1)), Tok("Power"), TNumber(Rat(4, 1)), Tok("Multiply"),
        TNumber(Rat(5, 1)), Tok("LessThan"), TNumber(Rat(6, 1)), Tok("Minus"),
        TNumber(Rat(7, 1)), EOL, EOF>>,
      <<TIdentifier("SQR"), Tok("LParen"), TNumber(Rat(4, 1)), Tok("RParen"), EOL, EOF>>,
      <<Tok("Let"), Tok("Equals"), TNumber(One), EOL, EOF>>,
      <<Tok("Input"), EOL, EOF>>,
      <<TIdentifier("X"), Tok("LParen"), TNumber(One), Tok("Comma"), EOL, EOF>>,
      <<Tok("LParen"), TNumber(One), EOL, EOF>> }

TokenSequences ==
    {tokenize(t) : t \in Texts} \cup {LineTokens(st) : st \in IfStatements}
        \cup TwoOperatorLines \cup OtherLines

InitParse ==
    /\ NoProgram
    /\ source = << >>
    /\ tokens \in TokenSequences
    /\ parsed = NotParsed

\* Parser::new(tokens).parse_program()
ParseProgram ==
    /\ parsed = NotParsed
    /\ tokens # << >>
    /\ parsed' = parse_program(tokens)
    /\ UNCHANGED <<interpreter, exe, source, tokens>>

SpecParse == InitParse /\ [][ParseProgram]_vars

-----------------------------------------------------------------------------
(* Properties of the interpreter.  In an action formula the primed `last`   *)
(* describes the statement the step has executed, the unprimed variables    *)
(* the state it started from.                                               *)

Executed(l, kind) == l.executed /\ l.leaf.kind = kind

\* C1 as stated, in the case most favourable to it: when execute_program has
\* returned Ok and the executable built from compile_program's text has run
\* to the end of main, the two have written the same output.
C1_SameOutput ==
    (result = ReturnOk /\ exe.status = "done") => exe.output = output

\* C2: a For that executes successfully makes no bound check: whatever the
\* values of start, end and step, it pushes its loop, the counter moves to the
\* line after it with the driver still iterating, and that line is the next
\* statement executed.
C2_ForEntersBody ==
    /\ [][(Executed(last', "For") /\ last'.ok) =>
              /\ current_line' = current_line + 1
              /\ running' = running
              /\ loops' = Append(loops, last'.leaf.loop_data)
              /\ loop_stack' = Append(loop_stack, current_line)
              /\ (current_line' < Len(program) => result' = InLoop)]_vars
    /\ [][(Executed(last, "For") /\ last.ok) => last'.line = last.line + 1]_vars

\* a loop whose start exceeds its end with a positive step is inside its body
C2_Witness ==
    /\ Executed(last, "Print") /\ last.ok
    /\ loops # <<>>
    /\ last.line = Top(loop_stack) + 1
    /\ RatLt(Top(for_vals).end, Top(for_vals).start)
    /\ RatLt(Zero, Top(for_vals).step)

\* C3 as stated: after a continuing Next the next statement executed is the
\* For line itself (the counter is the stored loop-start index).
C3_ForLineRerun ==
    (Executed(last, "Next") /\ last.ok /\ last.cont) => current_line = Top(loop_stack)

\* C3: a continuing Next leaves the counter on the line after the stored
\* loop-start index (the jump to the index followed by the driver's advance),
\* leaves both stacks as they were, and the next statement executed is that
\* line: the For line is not run again.
C3_ResumesAfterFor ==
    /\ [][(Executed(last', "Next") /\ last'.ok /\ last'.cont) =>
              /\ current_line' = Top(loop_stack) + 1
              /\ loops' = loops
              /\ loop_stack' = loop_stack
              /\ result' = InLoop]_vars
    /\ [][(Executed(last, "Next") /\ last.ok /\ last.cont) =>
              /\ last'.line = Top(loop_stack) + 1
              /\ last'.line < last.line + 1]_vars

\* a Next has continued: the counter is on the line after the For line, behind the Next
C3_Witness ==
    /\ Executed(last, "Next") /\ last.ok /\ last.cont
    /\ program[Top(loop_stack) + 1].kind = "For"
    /\ current_line = Top(loop_stack) + 1
    /\ current_line < last.line

\* the relations of the continuation test, on the fractions themselves
Positive(q) == q.n > 0
Negative(q) == q.n < 0
AtMost(p, q) == p.n * q.d <= q.n * p.d
Sum(p, q) == Rat(p.n * q.d + q.n * p.d, p.d * q.d)

\* C4: a successful Next x on a top entry for x evaluates step and end in the
\* variables of that moment and continues exactly when (step > 0 and
\* x + step <= end) or (step < 0 and x + step >= end); a zero step never
\* continues; on continuing x becomes x + step and nothing else is stored.
C4_NextTest ==
    [][(Executed(last', "Next") /\ last'.ok /\ loops # <<>>
        /\ Top(loops).variable = last'.leaf.variable) =>
          /\ evaluate_expression(Top(loops).step, variables).ok
          /\ evaluate_expression(Top(loops).end, variables).ok
          /\ LET x == last'.leaf.variable
                 step == evaluate_expression(Top(loops).step, variables).v.n
                 end == evaluate_expression(Top(loops).end, variables).v.n
                 next_val == Sum(variables[x], step)
             IN  /\ last'.cont <=> \/ (Positive(step) /\ AtMost(next_val, end))
                                   \/ (Negative(step) /\ AtMost(end, next_val))
                 /\ (step = Zero => ~last'.cont)
                 /\ (last'.cont => variables' = Insert(variables, x, next_val))]_vars

\* a Next has continued on an end that is no longer the one the For computed
C4_Witness ==
    /\ Executed(last, "Next") /\ last.ok /\ last.cont
    /\ evaluate_expression(Top(loops).end, variables).ok
    /\ evaluate_expression(Top(loops).end, variables).v.n # Top(for_vals).end

\* C5: a Next that does not continue removes exactly the top entry of each
\* stack, the counter moves to the line after the Next, and no variable
\* changes (x + step is not stored).
C5_NextExit ==
    [][(Executed(last', "Next") /\ last'.ok /\ ~last'.cont) =>
          /\ loops # <<>> /\ loop_stack # <<>>
          /\ loops' = SubSeq(loops, 1, Len(loops) - 1)
          /\ loop_stack' = SubSeq(loop_stack, 1, Len(loop_stack) - 1)
          /\ current_line' = current_line + 1
          /\ variables' = variables]_vars

\* a Next has left a loop below which another loop is still active
C5_Witness ==
    /\ Executed(last, "Next") /\ last.ok /\ ~last.cont
    /\ loops # <<>>
    /\ current_line = last.line + 1

\* C6: Next x fails when the loop stack is empty or its top entry is not for
\* x, also when a deeper entry is for x; the failing Next changes neither
\* stack nor any variable, and the run ends with the error.
C6_NextMismatch ==
    /\ [][(Executed(last', "Next")
            /\ (loops = <<>> \/ Top(loops).variable # last'.leaf.variable)) =>
              /\ ~last'.ok
              /\ result'.tag = "Err"
              /\ loops' = loops
              /\ loop_stack' = loop_stack
              /\ variables' = variables]_vars
    /\ [][~(Executed(last, "Next") /\ ~last.ok)]_vars

\* a Next has failed on a top entry for another variable above an entry for its own
C6_Witness ==
    /\ Executed(last, "Next") /\ ~last.ok
    /\ loops # <<>>
    /\ Top(loops).variable # last.leaf.variable
    /\ \E i \in 1..(Len(loops) - 1) : loops[i].variable = last.leaf.variable

\* C7: execute_program returns at the first statement that fails, with the
\* index of the line of that statement (the counter before the statement,
\* also for a Next and for the branch of an If); nothing is executed after it.
C7_StopsAtFirstFailure ==
    /\ [][/\ result.tag # "Err"
           /\ (~last'.ok =>
                  /\ result'.tag = "Err"
                  /\ result'.line = current_line
                  /\ program[result'.line + 1] = last'.stmt)
           /\ (last'.ok => result'.tag # "Err")]_vars
    /\ [](result.tag = "Err" => (last.executed /\ ~last.ok /\ result.line = last.line))

\* a Next in the branch of an If has failed on a line other than the first
C7_Witness ==
    /\ result.tag = "Err"
    /\ Executed(last, "Next")
    /\ last.stmt.kind = "If"
    /\ result.line > 0
    /\ result.line = current_line

\* a division with a zero right operand among the nodes evaluate_expression visits
RECURSIVE HasZeroDivide(_, _)
HasZeroDivide(e, vs) ==
    CASE e.kind = "Binary" ->
            \/ /\ e.operator = "Divide"
               /\ evaluate_expression(e.right, vs) = Ok(VNumber(Zero))
            \/ HasZeroDivide(e.left, vs)
            \/ HasZeroDivide(e.right, vs)
      [] e.kind = "FunctionCall" ->
            e.name \in {"ABS", "INT", "SQR"} /\ HasZeroDivide(e.arguments[1], vs)
      [] OTHER -> FALSE

\* the statement evaluates, in state s, an expression with such a division
RECURSIVE EvaluatesZeroDivide(_, _)
EvaluatesZeroDivide(st, s) ==
    CASE st.kind = "Let" -> HasZeroDivide(st.expression, s.variables)
      [] st.kind = "Print" ->
            \E i \in 1..Len(st.expressions) : HasZeroDivide(st.expressions[i], s.variables)
      [] st.kind = "For" ->
            \/ HasZeroDivide(st.loop_data.start, s.variables)
            \/ HasZeroDivide(st.loop_data.end, s.variables)
            \/ HasZeroDivide(st.loop_data.step, s.variables)
      [] st.kind = "Next" ->
            /\ s.loops # <<>>
            /\ Top(s.loops).variable = st.variable
            /\ \/ HasZeroDivide(Top(s.loops).step, s.variables)
               \/ HasZeroDivide(Top(s.loops).end, s.variables)
      [] st.kind = "If" ->
            \/ HasZeroDivide(st.condition, s.variables)
            \/ /\ evaluate_expression(st.condition, s.variables).ok
               /\ evaluate_expression(st.condition, s.variables).v.tag = "Number"
               /\ IF evaluate_expression(st.condition, s.variables).v.n # Zero
                  THEN EvaluatesZeroDivide(st.then_branch, s)
                  ELSE st.has_else /\ EvaluatesZeroDivide(st.else_branch, s)
      [] OTHER -> FALSE

\* the expressions of a statement, and the expressions of a program with
\* each of them also placed inside larger expressions
RECURSIVE StatementExpressions(_)
StatementExpressions(st) ==
    CASE st.kind = "Let" -> {st.expression}
      [] st.kind = "Print" -> {st.expressions[i] : i \in 1..Len(st.expressions)}
      [] st.kind = "For" -> {st.loop_data.start, st.loop_data.end, st.loop_data.step}
      [] st.kind = "If" ->
            {st.condition} \cup StatementExpressions(st.then_branch)
                \cup (IF st.has_else THEN StatementExpressions(st.else_branch) ELSE {})
      [] OTHER -> {}

Nested(e) ==
    { e,
      EBinary(ENumber(1), "Plus", e),
      EBinary(e, "LessThan", EVariable("I")),
      EBinary(EString("A"), "Multiply", EBinary(ENumber(2), "Power", e)),
      EFunctionCall("ABS", <<EBinary(e, "Minus", ENumber(1))>>),
      EBinary(e, "Divide", e),
      EBinary(EVariable("I"), "Divide", EBinary(e, "Minus", e)) }

ProgramExpressions ==
    UNION { Nested(e) : e \in UNION { StatementExpressions(program[i]) : i \in 1..Len(program) } }

\* C8: an expression in which evaluate_expression meets a division whose
\* right operand evaluates to zero returns an error, whatever the left
\* operand and however deep the division; the statement evaluating it fails.
C8_DivisionByZero ==
    /\ [](\A e \in ProgramExpressions :
            HasZeroDivide(e, variables) => ~evaluate_expression(e, variables).ok)
    /\ [][EvaluatesZeroDivide(CurrentStatement, State) =>
              (~last'.ok /\ result'.tag = "Err")]_vars

\* a Let has failed on a division by zero nested in a call, with a String on the left
C8_Witness ==
    /\ Executed(last, "Let") /\ ~last.ok
    /\ last.leaf.expression.kind = "FunctionCall"
    /\ HasZeroDivide(last.leaf.expression, variables)
    /\ last.leaf.expression.arguments[1].left.kind = "String"
    /\ result.tag = "Err"

\* the six relations, on the fractions themselves
Relation(op, p, q) ==
    CASE op = "LessThan" -> p.n * q.d < q.n * p.d
      [] op = "GreaterThan" -> p.n * q.d > q.n * p.d
      [] op = "Equals" -> p.n * q.d = q.n * p.d
      [] op = "LessOrEqual" -> p.n * q.d <= q.n * p.d
      [] op = "GreaterOrEqual" -> p.n * q.d >= q.n * p.d
      [] op = "NotEqual" -> p.n * q.d # q.n * p.d

\* expressions whose value is a Number: the defined variables and small literals
NumberOperands == {EVariable(x) : x \in DOMAIN variables} \cup {ENumber(k) : k \in 0..MaxVal}

NumberOf(e) == evaluate_expression(e, variables).v.n

\* C9: on two Number operands each of the six comparison operators returns
\* Number 1 when the relation holds and Number 0 when it does not.
C9_ComparisonResult ==
    \A a \in NumberOperands, b \in NumberOperands, op \in ComparisonOps :
        evaluate_expression(EBinary(a, op, b), variables) =
            Ok(VNumber(IF Relation(op, NumberOf(a), NumberOf(b)) THEN One ELSE Zero))

\* a true and then a false comparison have been printed
C9_Witness ==
    /\ Executed(last, "Print") /\ last.ok
    /\ last.leaf.expressions[1].kind = "Binary"
    /\ last.leaf.expressions[1].operator \in ComparisonOps
    /\ output = <<VNumber(One), Newline, VNumber(Zero)>>

EndExecuted == Executed(last, "End") /\ last.ok

\* C10: once an End has executed, as a line or as the taken branch of an If,
\* execute_program has returned Ok and no statement is executed any more,
\* whatever lines remain and whatever is on the loop stack.
C10_EndTerminates ==
    /\ [](EndExecuted => (result = ReturnOk /\ ~running))
    /\ [][~EndExecuted]_vars

\* an End in the branch of an If has executed inside a loop, with lines left
C10_Witness ==
    /\ EndExecuted
    /\ last.stmt.kind = "If"
    /\ loops # <<>>
    /\ current_line < Len(program)

\* C11: a Let whose expression evaluates to a String fails and leaves the
\* variables as they were; a Let whose expression evaluates to a Number
\* succeeds and stores exactly that number under its name, nothing else.
C11_LetStoresNumbersOnly ==
    [][(Executed(last', "Let") /\ evaluate_expression(last'.leaf.expression, variables).ok) =>
          IF evaluate_expression(last'.leaf.expression, variables).v.tag = "String"
          THEN /\ ~last'.ok
               /\ result'.tag = "Err"
               /\ variables' = variables
          ELSE /\ last'.ok
               /\ variables' = Insert(variables, last'.leaf.variable,
                                      evaluate_expression(last'.leaf.expression, variables).v.n)]_vars

\* a Let of a String to a variable that has a value has failed
C11_Witness ==
    /\ Executed(last, "Let") /\ ~last.ok
    /\ evaluate_expression(last.leaf.expression, variables) = Ok(VString("A"))
    /\ last.leaf.variable \in DOMAIN variables
    /\ result.tag = "Err"

\* C12: after a statement that succeeds and is not a continuing Next the
\* counter is one greater than before it; the counter changes in no other
\* way than this advance and the jump of a continuing Next.
C12_CounterAdvance ==
    /\ [][(last'.executed /\ last'.ok /\ ~last'.cont) =>
              current_line' = current_line + 1]_vars
    /\ [][current_line' # current_line =>
              /\ last'.ok
              /\ \/ current_line' = current_line + 1
                 \/ last'.cont /\ current_line' = Top(loop_stack) + 1]_vars

\* an End has executed on a line that is not the last: the counter is behind it
C12_Witness ==
    /\ Executed(last, "End") /\ last.ok
    /\ current_line = last.line + 1
    /\ current_line < Len(program)

\* C16 as stated: a statement that execute_statement has executed with
\* success (a Let, Print, If, Input, For, Next or End) is translated by
\* compile_statement without a fatal failure.
C16_ExecutedStatementsCompile ==
    (last.executed /\ last.ok) => compile_statement(last.stmt, 1).ok

\* the characters that produce no token by themselves
Blank(c) == c \notin {"\n", "\"", "_", "<", ">"} \cup DOMAIN SingleCharTokens
               /\ ~IsDigit(c) /\ ~IsLetter(c)

CountEOF == Cardinality({i \in 1..Len(tokens) : tokens[i] = EOF})

\* C13 as stated: whatever the text, the tokens end with EOL followed by EOF,
\* and EOF occurs once.
C13_EndsWithEOLThenEOF ==
    tokens # << >> =>
        /\ Len(tokens) >= 2
        /\ tokens[Len(tokens)] = EOF
        /\ tokens[Len(tokens) - 1] = EOL
        /\ CountEOF = 1

\* C13: the tokens end with EOF, which occurs once; if any token precedes
\* it, the one immediately before it is EOL; a text of whitespace and
\* unrecognized characters only (the empty text too) gives EOF alone.
C13_EndsWithEOF ==
    tokens # << >> =>
        /\ tokens[Len(tokens)] = EOF
        /\ CountEOF = 1
        /\ (Len(tokens) >= 2 => tokens[Len(tokens) - 1] = EOL)
        /\ ((\A i \in 1..Len(source) : Blank(source[i])) => tokens = <<EOF>>)
        /\ ((\E i \in 1..Len(source) : ~Blank(source[i]) /\ ~IsDigit(source[i])) =>
                Len(tokens) >= 2)

\* a text of a space and an unrecognized character has been tokenized
C13_Witness ==
    /\ source = <<" ", "?">>
    /\ tokens = <<EOF>>

\* C17 as stated, for a text that is one run: a text of digits and points
\* that begins with a digit gives exactly one number token.
C17_DigitRunIsOneNumber ==
    (/\ tokens # << >>
     /\ source # << >>
     /\ IsDigit(source[1])
     /\ \A i \in 1..Len(source) : IsDigit(source[i]) \/ source[i] = ".") =>
        /\ Len(tokens) = 3
        /\ tokens[1].t = "Number"

\* C18: the resume indices on the loop stack increase strictly from bottom
\* to top and are all below the counter, so no line has two entries and the
\* depth is at most the number of lines; a step removes at most the top entry.
C18_LoopStackDistinct ==
    /\ [](/\ \A i \in 1..Len(loop_stack) : loop_stack[i] < current_line
          /\ \A i \in 1..(Len(loop_stack) - 1) : loop_stack[i] < loop_stack[i + 1]
          /\ Len(loop_stack) <= Len(program))
    /\ [][\/ loop_stack' = loop_stack
          \/ loop_stack' = Pop(loop_stack)
          \/ loop_stack' = Append(loop_stack, current_line)]_vars

\* a For inside the body of a loop has been executed again after a continuing Next
C18_Witness ==
    /\ Executed(last, "For") /\ last.ok
    /\ Len(loop_stack) = 2
    /\ RatLt(for_vals[1].start, variables[loops[1].variable])

\* the loops of the For statements on a line: the line itself or the branches of an If
RECURSIVE ForLoopsOf(_)
ForLoopsOf(st) ==
    CASE st.kind = "For" -> {st.loop_data}
      [] st.kind = "If" ->
            ForLoopsOf(st.then_branch) \cup (IF st.has_else THEN ForLoopsOf(st.else_branch) ELSE {})
      [] OTHER -> {}

\* C19: the two stacks have the same length and the i-th loop record is the
\* loop of the For on the line of the i-th resume index; a step pushes on
\* both or pops from both.
C19_StacksParallel ==
    /\ [](/\ Len(loops) = Len(loop_stack)
          /\ \A i \in 1..Len(loops) : loops[i] \in ForLoopsOf(program[loop_stack[i] + 1]))
    /\ [][(Len(loops') = Len(loops) + 1) <=> (Len(loop_stack') = Len(loop_stack) + 1)]_vars
    /\ [][(Len(loops') = Len(loops) - 1) <=> (Len(loop_stack') = Len(loop_stack) - 1)]_vars

\* an inner loop has been left while the outer one stays active
C19_Witness ==
    /\ Executed(last, "Next") /\ last.ok /\ ~last.cont
    /\ Len(loops) = 1 /\ Len(loop_stack) = 1
    /\ loops[1].variable # last.leaf.variable

\* C20: the variable of every loop on the stack has a value, so the lookup a
\* matching Next makes finds it; no step removes a variable.
C20_LoopVariableDefined ==
    /\ [](\A i \in 1..Len(loops) : loops[i].variable \in DOMAIN variables)
    /\ [](result # Panicked)
    /\ [][DOMAIN variables \subseteq DOMAIN variables']_vars

\* a matching Next has made its lookup in a loop entered through an If
C20_Witness ==
    /\ Executed(last, "Next") /\ last.ok
    /\ program[1].kind = "If"
    /\ DOMAIN variables = {last.leaf.variable}

\* what parse_program returns when it builds the one-line program st
ParsesTo(st) == [done |-> TRUE, ok |-> TRUE, lines |-> <<st>>]

(* C14: IF c THEN s1 ELSE s2 parses to the If with condition c, then-branch  *)
(* s1 and else-branch s2, and IF c THEN s1 to the If without else-branch,    *)
(* for every then-branch s1 that is a Let, a Print, an Input, a For, a Next, *)
(* an End or an If with its own ELSE.                                        *)
C14_IfThenElseParses ==
    \A c \in Conditions : \A s1 \in ThenStatements :
        /\ (parsed.done /\ tokens = LineTokens(SIf(c, s1))) => parsed = ParsesTo(SIf(c, s1))
        /\ \A s2 \in ElseStatements :
              (parsed.done /\ tokens = LineTokens(SIfElse(c, s1, s2)))
                  => parsed = ParsesTo(SIfElse(c, s1, s2))

\* the level of a binary operator, 1 binding loosest
PrecedenceLevel(op) ==
    CASE op \in ComparisonOps -> 1
      [] op \in {"Plus", "Minus"} -> 2
      [] op \in {"Multiply", "Divide"} -> 3
      [] op = "Power" -> 4

\* a op1 b op2 c grouped by level, operators of one level from the left
Grouped(a, op1, b, op2, c) ==
    IF PrecedenceLevel(op1) >= PrecedenceLevel(op2)
    THEN EBinary(EBinary(a, op1, b), op2, c)
    ELSE EBinary(a, op1, EBinary(b, op2, c))

(* C15: a op1 b op2 c, for any two binary operators, parses to the tree in   *)
(* which the operator of the higher level (comparison, additive,             *)
(* multiplicative, power) binds first and two operators of one level group   *)
(* from the left, the power operator included.                               *)
C15_PrecedenceLeftAssociative ==
    \A a \in FirstOperands : \A b \in SecondOperands : \A c \in ThirdOperands :
        \A op1 \in BinaryOperators : \A op2 \in BinaryOperators :
            (parsed.done /\ tokens = TwoOperatorTokens(a, op1, b, op2, c))
                => parsed = ParsesTo(SLet("Y", Grouped(a.e, op1, b.e, op2, c.e)))

\* 1 ^ X ^ 2 was parsed to (1 ^ X) ^ 2 and 1 + X * 2 to 1 + (X * 2)
C15_Witness ==
    /\ parsed.done /\ parsed.ok
    /\ \/ /\ tokens = <<Tok("Let"), TIdentifier("Y"), Tok("Equals"), TNumber(One), Tok("Power"),
                        TIdentifier("X"), Tok("Power"), TNumber(Rat(2, 1)), EOL, EOF>>
          /\ parsed.lines[1].expression.left = EBinary(ENumber(1), "Power", EVariable("X"))
       \/ /\ tokens = <<Tok("Let"), TIdentifier("Y"), Tok("Equals"), TNumber(One), Tok("Plus"),
                        TIdentifier("X"), Tok("Multiply"), TNumber(Rat(2, 1)), EOL, EOF>>
          /\ parsed.lines[1].expression.right = EBinary(EVariable("X"), "Multiply", ENumber(2))

(* C21: an iteration in which the statement returns a runtime error leaves   *)
(* the variables, both loop stacks, the program counter and the running flag *)
(* as they were before the statement began.                                  *)
C21_ErrorLeavesState ==
    [][result'.tag = "Err"
          => UNCHANGED <<variables, loops, loop_stack, current_line, running>>]_vars

\* a Next inside a loop failed on the division in its step or end expression
C21_Witness ==
    /\ result.tag = "Err" /\ result.msg = "Division by zero"
    /\ Executed(last, "Next") /\ ~last.ok
    /\ loops # << >> /\ loop_stack # << >>
    /\ last.leaf.variable \in DOMAIN variables

====
